---------------------------- MODULE Spec2Model ----------------------------
(***************************************************************************)
(* Model of pyccel's Fortran-C binding nodes (pyccel/ast/bind_c.py), of the  *)
(* builtin nodes of pyccel/ast/builtins.py (the numeric casts, complex      *)
(* numbers, tuple and list literals, tuple(), len(), range(), zip(),        *)
(* enumerate(), max() and min()) and of change_to_lib_flag of               *)
(* pyccel/compilers/default_compilers.py.                                   *)
(*                                                                         *)
(* Names are sequences of one-character strings, so that formatting         *)
(* (f'{name}_shape_{i+1}') and str.lower() are computed, not assumed.       *)
(* Objects of the builtin layer live in a heap; the position of an object   *)
(* in the heap is its identity (Python's `is`).                             *)
(***************************************************************************)
EXTENDS Integers, Sequences, FiniteSets, TLC

VARIABLES
    scope,       \* names used in the naming scope handed to the wrappers
    declared,    \* the names the caller had registered before any wrapper was built
    log,         \* one entry per call of scope.get_temporary_variable, in call order
    arguments,   \* argument objects built so far for the signature, in order
    results,     \* result objects built so far for the signature, in order
    func,        \* the binding node once built (None before, and after a failure)
    raised,      \* the exception the last construction ended with ("" if none)
    ret,         \* the last accessor call on the binding layer and what it returned
    heap,        \* objects of the builtin layer (literals, variables, nodes)
    last,        \* the last constructor call on the builtin layer
    pyccel_stage \* the process-wide stage marker: "syntactic", "semantic", "codegen"

vars == <<scope, declared, log, arguments, results, func, raised, ret, heap, last, pyccel_stage>>

bindVars == <<scope, declared, log, arguments, results, func, raised, ret>>
castVars == <<heap, last, pyccel_stage>>

(***************************************************************************)
(* Bounds                                                                   *)
(***************************************************************************)
MaxWrappers == 2
MaxRank == 2
MaxObjects == 3

None == [cls |-> "NoneType"]
NoRet == [op |-> "", self |-> 0, value |-> <<>>]
NoCall == [op |-> "", arg |-> 0, result |-> 0, before |-> 0]

(***************************************************************************)
(* Text                                                                     *)
(***************************************************************************)
Digit == <<"0", "1", "2", "3", "4", "5", "6", "7", "8", "9">>

Upper == <<"A", "B", "C", "D", "E", "F", "G", "H", "I", "J", "K", "L", "M",
           "N", "O", "P", "Q", "R", "S", "T", "U", "V", "W", "X", "Y", "Z">>

Lower == <<"a", "b", "c", "d", "e", "f", "g", "h", "i", "j", "k", "l", "m",
           "n", "o", "p", "q", "r", "s", "t", "u", "v", "w", "x", "y", "z">>

\* str(n) for a natural number: its decimal digits.
RECURSIVE Str(_)
Str(n) == IF n < 10 THEN <<Digit[n + 1]>>
          ELSE Str(n \div 10) \o <<Digit[(n % 10) + 1]>>

\* '%04d' % n
Pad4(n) == LET s == Str(n)
           IN  [k \in 1..(IF Len(s) < 4 THEN 4 - Len(s) ELSE 0) |-> "0"] \o s

LowerChar(c) == IF \E k \in 1..Len(Upper) : Upper[k] = c
                THEN Lower[CHOOSE k \in 1..Len(Upper) : Upper[k] = c]
                ELSE c

\* str.lower()
lower(s) == [k \in 1..Len(s) |-> LowerChar(s[k])]

\* Python's [False, False]*n
RECURSIVE Repeat(_, _)
Repeat(s, n) == IF n = 0 THEN <<>> ELSE s \o Repeat(s, n - 1)

\* Concatenation of a sequence of sequences, in order
RECURSIVE Flatten(_)
Flatten(ss) == IF ss = <<>> THEN <<>> ELSE Head(ss) \o Flatten(Tail(ss))

\* f'{name}_shape_{i+1}'
ShapeName(name, i) == name \o <<"_", "s", "h", "a", "p", "e", "_">> \o Str(i + 1)

\* f'{name}_stride_{i+1}'
StrideName(name, i) == name \o <<"_", "s", "t", "r", "i", "d", "e", "_">> \o Str(i + 1)


(***************************************************************************)
(* Variables (pyccel.ast.variable.Variable): name, datatype, rank           *)
(***************************************************************************)
Variable(name, dtype, rank) == [name |-> name, dtype |-> dtype, rank |-> rank]

NoVar == Variable(<<>>, "", 0)

(***************************************************************************)
(* The naming scope (pyccel.parser.scope.Scope).  Its code is not part of   *)
(* the sources at hand; it is modelled from the specification: a request    *)
(* for a temporary returns a variable whose name is fresh in the scope,     *)
(* the requested name when that is free and an incremented one otherwise,   *)
(* and registers that name.                                                 *)
(***************************************************************************)
RECURSIVE create_incremented_string(_, _, _)
create_incremented_string(used, prefix, counter) ==
    LET s == prefix \o <<"_">> \o Pad4(counter)
    IN  IF s \in used THEN create_incremented_string(used, prefix, counter + 1)
        ELSE s

get_new_name(used, current_name) ==
    IF current_name \notin used THEN current_name
    ELSE create_incremented_string(used, current_name, 1)

\* scope.get_temporary_variable(dtype, name=name): the variable, the scope
\* after the call, and the record of the call.
get_temporary_variable(used, dtype, name) ==
    LET new == get_new_name(used, name)
    IN  [var  |-> Variable(new, dtype, 0),
         used |-> used \cup {new},
         call |-> [requested |-> name, got |-> new, clash |-> name \in used]]

\* [scope.get_temporary_variable(dtype, name=n) for n in names]: the calls
\* are made one after the other, each seeing the names the earlier ones took.
RECURSIVE get_temporary_variables(_, _, _)
get_temporary_variables(used, dtype, names) ==
    IF names = <<>> THEN [vars |-> <<>>, used |-> used, calls |-> <<>>]
    ELSE LET one  == get_temporary_variable(used, dtype, Head(names))
             rest == get_temporary_variables(one.used, dtype, Tail(names))
         IN  [vars  |-> <<one.var>> \o rest.vars,
              used  |-> rest.used,
              calls |-> <<one.call>> \o rest.calls]

(***************************************************************************)
(* Arguments and results.  Every argument or result object is a record      *)
(*   cls, id, var, original, rank, shape, strides, inout                    *)
(* where id tells the objects of one signature apart (0 for the            *)
(* descriptors an accessor creates on the fly).                             *)
(***************************************************************************)

\* FunctionDefArgument(var) of pyccel.ast.core, which stores the variable and
\* the mutability the caller decided for it.
FunctionDefArgument(id, var, inout) ==
    [cls |-> "FunctionDefArgument", id |-> id, var |-> var, original |-> NoVar,
     rank |-> 0, shape |-> <<>>, strides |-> <<>>, inout |-> inout]

\* FunctionDefResult(var) of pyccel.ast.core.
FunctionDefResult(id, var) ==
    [cls |-> "FunctionDefResult", id |-> id, var |-> var, original |-> NoVar,
     rank |-> 0, shape |-> <<>>, strides |-> <<>>, inout |-> FALSE]

\* FunctionDefArgument.inout
FunctionDefArgument_inout(a) == a.inout

\* BindCFunctionDefArgument.__init__ taking the rank of the wrapped variable
BindCFunctionDefArgument_var_rank(id, var, used, original_arg_var, inout) ==
    LET name    == var.name
        rank    == var.rank
        shape   == get_temporary_variables(used, "NativeInteger",
                       [k \in 1..rank |-> ShapeName(name, k - 1)])
        strides == get_temporary_variables(shape.used, "NativeInteger",
                       [k \in 1..rank |-> StrideName(name, k - 1)])
    IN  [obj   |-> [FunctionDefArgument(id, var, inout) EXCEPT
                       !.cls = "BindCFunctionDefArgument",
                       !.rank = rank,
                       !.shape = shape.vars,
                       !.strides = strides.vars,
                       !.original = original_arg_var],
         used  |-> strides.used,
         calls |-> shape.calls \o strides.calls]

\* BindCFunctionDefArgument.__init__ creating the descriptors under the names
\* it asked for, whatever the scope answered
BindCFunctionDefArgument_unscoped(id, var, used, original_arg_var, inout) ==
    LET name    == var.name
        rank    == original_arg_var.rank
        shape   == get_temporary_variables(used, "NativeInteger",
                       [k \in 1..rank |-> ShapeName(name, k - 1)])
        strides == get_temporary_variables(shape.used, "NativeInteger",
                       [k \in 1..rank |-> StrideName(name, k - 1)])
    IN  [obj   |-> [FunctionDefArgument(id, var, inout) EXCEPT
                       !.cls = "BindCFunctionDefArgument",
                       !.rank = rank,
                       !.shape = [k \in 1..rank |->
                                    Variable(ShapeName(name, k - 1), "NativeInteger", 0)],
                       !.strides = [k \in 1..rank |->
                                    Variable(StrideName(name, k - 1), "NativeInteger", 0)],
                       !.original = original_arg_var],
         used  |-> strides.used,
         calls |-> shape.calls \o strides.calls]

\* BindCFunctionDefArgument.__init__ asking for the strides before the shapes
BindCFunctionDefArgument_strides_first(id, var, used, original_arg_var, inout) ==
    LET name    == var.name
        rank    == original_arg_var.rank
        strides == get_temporary_variables(used, "NativeInteger",
                       [k \in 1..rank |-> StrideName(name, k - 1)])
        shape   == get_temporary_variables(strides.used, "NativeInteger",
                       [k \in 1..rank |-> ShapeName(name, k - 1)])
    IN  [obj   |-> [FunctionDefArgument(id, var, inout) EXCEPT
                       !.cls = "BindCFunctionDefArgument",
                       !.rank = rank,
                       !.shape = shape.vars,
                       !.strides = strides.vars,
                       !.original = original_arg_var],
         used  |-> shape.used,
         calls |-> strides.calls \o shape.calls]

\* BindCFunctionDefArgument.__init__(var, scope, original_arg_var, **kwargs):
\* the object, the scope after the construction and the calls made to it.
BindCFunctionDefArgument(id, var, used, original_arg_var, inout) ==
    LET name    == var.name
        rank    == original_arg_var.rank
        shape   == get_temporary_variables(used, "NativeInteger",
                       [k \in 1..rank |-> ShapeName(name, k - 1)])
        strides == get_temporary_variables(shape.used, "NativeInteger",
                       [k \in 1..rank |-> StrideName(name, k - 1)])
    IN  [obj   |-> [FunctionDefArgument(id, var, inout) EXCEPT
                       !.cls = "BindCFunctionDefArgument",
                       !.rank = rank,
                       !.shape = shape.vars,
                       !.strides = strides.vars,
                       !.original = original_arg_var],
         used  |-> strides.used,
         calls |-> shape.calls \o strides.calls]

\* get_all_function_def_arguments giving each dimension's shape and stride together
get_all_function_def_arguments_interleaved(self) ==
    <<self>>
    \o Flatten([k \in 1..Len(self.shape) |->
                  <<FunctionDefArgument(0, self.shape[k], FALSE),
                    FunctionDefArgument(0, self.strides[k], FALSE)>>])

\* BindCFunctionDefArgument.get_all_function_def_arguments
get_all_function_def_arguments(self) ==
    <<self>>
    \o [k \in 1..Len(self.shape) |-> FunctionDefArgument(0, self.shape[k], FALSE)]
    \o [k \in 1..Len(self.strides) |-> FunctionDefArgument(0, self.strides[k], FALSE)]

\* BindCFunctionDefArgument.inout: a list for an array, a single flag otherwise
inout(self) ==
    IF self.rank # 0
    THEN <<FALSE>> \o Repeat(<<FALSE, FALSE>>, self.rank)
    ELSE FunctionDefArgument_inout(self)

\* BindCFunctionDefResult.__init__ naming the shapes after the returned variable
BindCFunctionDefResult_var_name(id, var, original_res_var, used) ==
    LET name  == var.name
        shape == get_temporary_variables(used, "NativeInteger",
                     [k \in 1..original_res_var.rank |-> ShapeName(name, k - 1)])
    IN  [obj   |-> [FunctionDefResult(id, var) EXCEPT
                       !.cls = "BindCFunctionDefResult",
                       !.shape = shape.vars,
                       !.original = original_res_var],
         used  |-> shape.used,
         calls |-> shape.calls]

\* BindCFunctionDefResult.__init__(var, original_res_var, scope, **kwargs)
BindCFunctionDefResult(id, var, original_res_var, used) ==
    LET name  == original_res_var.name
        shape == get_temporary_variables(used, "NativeInteger",
                     [k \in 1..original_res_var.rank |-> ShapeName(name, k - 1)])
    IN  [obj   |-> [FunctionDefResult(id, var) EXCEPT
                       !.cls = "BindCFunctionDefResult",
                       !.shape = shape.vars,
                       !.original = original_res_var],
         used  |-> shape.used,
         calls |-> shape.calls]

\* BindCFunctionDefResult.get_all_function_def_results
get_all_function_def_results(self) ==
    <<self>>
    \o [k \in 1..Len(self.shape) |-> FunctionDefResult(0, self.shape[k])]

(***************************************************************************)
(* BindCFunctionDef                                                         *)
(***************************************************************************)

\* The assertions of BindCFunctionDef.__init__ without the one on the results
BindCFunctionDef_asserts_no_results(name, args, res) ==
    /\ name = lower(name)
    /\ \A k \in 1..Len(args) : args[k].cls = "BindCFunctionDefArgument"

\* The three assertions of BindCFunctionDef.__init__
BindCFunctionDef_asserts(name, args, res) ==
    /\ name = lower(name)
    /\ \A k \in 1..Len(args) : args[k].cls = "BindCFunctionDefArgument"
    /\ \A k \in 1..Len(res) : res[k].cls = "BindCFunctionDefResult"

\* BindCFunctionDef(name, arguments, results, ..., original_function=...)
BindCFunctionDef(name, args, res, original_function) ==
    [cls |-> "BindCFunctionDef", name |-> name, arguments |-> args,
     results |-> res, original_function |-> original_function]

bind_c_arguments(self) == self.arguments

bind_c_results(self) == self.results

\* BindCFunctionDef.results
BindCFunctionDef_results(self) ==
    Flatten([k \in 1..Len(self.results) |->
                get_all_function_def_results(self.results[k])])

\* BindCFunctionDef.arguments handing out the wrappers as stored
BindCFunctionDef_arguments_unflattened(self) == self.arguments

\* BindCFunctionDef.arguments
BindCFunctionDef_arguments(self) ==
    Flatten([k \in 1..Len(self.arguments) |->
                get_all_function_def_arguments(self.arguments[k])])

(***************************************************************************)
(* The binding layer as a state machine: wrappers are built one after the   *)
(* other against one scope, then the signature is assembled; the accessors  *)
(* may be called at any time.                                               *)
(***************************************************************************)
NameX == <<"x">>
BoundPrefix == <<"b", "o", "u", "n", "d", "_">>

\* Names of the variables of the wrapped function
OrigNames == {NameX}

\* Names a user may have given to other variables of the same scope
UserNames == OrigNames \cup {ShapeName(NameX, 0), ShapeName(BoundPrefix \o NameX, 0)}

\* Function names handed to BindCFunctionDef
FuncNames == {<<"f", "_", "1">>, <<"g", "O">>}

\* The C-compatible variable the caller passes for an original variable: the
\* variable itself for a scalar, a C pointer under a name of its own for an array.
CompatibleVar(original) ==
    IF original.rank > 0
    THEN Variable(BoundPrefix \o original.name, "BindCPointer", 0)
    ELSE original

NextId == Len(arguments) + Len(results) + 1

\* The calls a construction made to the scope, each noted with the object built
Noted(calls, id) ==
    [k \in 1..Len(calls) |->
        [requested |-> calls[k].requested, got |-> calls[k].got,
         clash |-> calls[k].clash, by |-> id]]

Building == func = None /\ raised = ""

InitBindC ==
    /\ declared \in {OrigNames, UserNames}
    /\ scope = declared
    /\ log = <<>>
    /\ arguments = <<>>
    /\ results = <<>>
    /\ func = None
    /\ raised = ""
    /\ ret = NoRet
    /\ heap = <<>>
    /\ last = NoCall
    /\ pyccel_stage = "semantic"

\* a = BindCFunctionDefArgument(var, scope, original_arg_var, ...)
NewBindCFunctionDefArgument ==
    /\ Building
    /\ Len(arguments) + Len(results) < MaxWrappers
    /\ \E o \in OrigNames, r \in 0..MaxRank, io \in BOOLEAN :
         LET original == Variable(o, "NativeFloat", r)
             new == BindCFunctionDefArgument(NextId, CompatibleVar(original),
                                             scope, original, io)
         IN  /\ arguments' = Append(arguments, new.obj)
             /\ scope' = new.used
             /\ log' = log \o Noted(new.calls, NextId)
    /\ ret' = NoRet
    /\ UNCHANGED <<declared, results, func, raised, heap, last, pyccel_stage>>

\* r = BindCFunctionDefResult(var, original_res_var, scope)
NewBindCFunctionDefResult ==
    /\ Building
    /\ Len(arguments) + Len(results) < MaxWrappers
    /\ \E o \in OrigNames, r \in 0..MaxRank :
         LET original == Variable(o, "NativeFloat", r)
             new == BindCFunctionDefResult(NextId, CompatibleVar(original),
                                           original, scope)
         IN  /\ results' = Append(results, new.obj)
             /\ scope' = new.used
             /\ log' = log \o Noted(new.calls, NextId)
    /\ ret' = NoRet
    /\ UNCHANGED <<declared, arguments, func, raised, heap, last, pyccel_stage>>

\* BindCFunctionDef(name, args, res, original_function=...), where the caller
\* passes the wrappers built so far, or slips in an unwrapped argument or result.
NewBindCFunctionDef ==
    /\ Building
    /\ \E name \in FuncNames, rawArg \in BOOLEAN, rawRes \in BOOLEAN :
         LET args == IF rawArg
                     THEN Append(arguments,
                                 FunctionDefArgument(NextId, Variable(NameX, "NativeFloat", 0), FALSE))
                     ELSE arguments
             res  == IF rawRes
                     THEN Append(results,
                                 FunctionDefResult(NextId, Variable(NameX, "NativeFloat", 0)))
                     ELSE results
         IN  IF BindCFunctionDef_asserts(name, args, res)
             THEN /\ func' = BindCFunctionDef(name, args, res,
                                                   [cls |-> "FunctionDef", name |-> name])
                  /\ raised' = ""
                  /\ ret' = NoRet
             ELSE /\ func' = None
                  /\ raised' = "AssertionError"
                  /\ ret' = [op |-> "BindCFunctionDef", self |-> 0,
                             value |-> <<name, args, res>>]
    /\ UNCHANGED <<scope, declared, log, arguments, results, heap, last, pyccel_stage>>

\* a.get_all_function_def_arguments()
CallGetAllFunctionDefArguments ==
    /\ \E k \in 1..Len(arguments) :
         ret' = [op |-> "get_all_function_def_arguments", self |-> k,
                 value |-> get_all_function_def_arguments(arguments[k])]
    /\ UNCHANGED <<scope, declared, log, arguments, results, func, raised, heap, last, pyccel_stage>>

\* a.inout
CallInout ==
    /\ \E k \in 1..Len(arguments) :
         ret' = [op |-> "inout", self |-> k, value |-> inout(arguments[k])]
    /\ UNCHANGED <<scope, declared, log, arguments, results, func, raised, heap, last, pyccel_stage>>

\* r.get_all_function_def_results()
CallGetAllFunctionDefResults ==
    /\ \E k \in 1..Len(results) :
         ret' = [op |-> "get_all_function_def_results", self |-> k,
                 value |-> get_all_function_def_results(results[k])]
    /\ UNCHANGED <<scope, declared, log, arguments, results, func, raised, heap, last, pyccel_stage>>

\* f.bind_c_arguments, f.bind_c_results, f.arguments, f.results
CallBindCArguments ==
    /\ func # None
    /\ ret' = [op |-> "bind_c_arguments", self |-> 0, value |-> bind_c_arguments(func)]
    /\ UNCHANGED <<scope, declared, log, arguments, results, func, raised, heap, last, pyccel_stage>>

CallBindCResults ==
    /\ func # None
    /\ ret' = [op |-> "bind_c_results", self |-> 0, value |-> bind_c_results(func)]
    /\ UNCHANGED <<scope, declared, log, arguments, results, func, raised, heap, last, pyccel_stage>>

CallArguments ==
    /\ func # None
    /\ ret' = [op |-> "arguments", self |-> 0, value |-> BindCFunctionDef_arguments(func)]
    /\ UNCHANGED <<scope, declared, log, arguments, results, func, raised, heap, last, pyccel_stage>>

CallResults ==
    /\ func # None
    /\ ret' = [op |-> "results", self |-> 0, value |-> BindCFunctionDef_results(func)]
    /\ UNCHANGED <<scope, declared, log, arguments, results, func, raised, heap, last, pyccel_stage>>

NextBindC ==
    \/ NewBindCFunctionDefArgument
    \/ NewBindCFunctionDefResult
    \/ NewBindCFunctionDef
    \/ CallGetAllFunctionDefArguments
    \/ CallInout
    \/ CallGetAllFunctionDefResults
    \/ CallBindCArguments
    \/ CallBindCResults
    \/ CallArguments
    \/ CallResults

SpecBindC == InitBindC /\ [][NextBindC]_vars

(***************************************************************************)
(* Properties of the binding layer                                          *)
(***************************************************************************)
DimText == <<"1", "2", "3", "4", "5", "6", "7", "8", "9">>

\* '<name>_shape_<i>' and '<name>_stride_<i>' written out, dimensions counted from 1
ExpectedShapeName(name, i) ==
    name \o <<"_", "s", "h", "a", "p", "e", "_">> \o <<DimText[i]>>

ExpectedStrideName(name, i) ==
    name \o <<"_", "s", "t", "r", "i", "d", "e", "_">> \o <<DimText[i]>>

\* The calls to the scope made while the object with this id was built
CallsBy(id) == SelectSeq(log, LAMBDA c : c.by = id)

\* The variable is the one the scope handed out for call c, of integer type
HandedOut(v, c) == v.name = c.got /\ v.dtype = "NativeInteger" /\ v.rank = 0

\* The scope's answer to call c: the requested name if it was free, another otherwise
FreshAnswer(c) == IF c.clash THEN c.got # c.requested ELSE c.got = c.requested

\* All synthesized shape and stride variables of the signature
Synthesized ==
    Flatten([k \in 1..Len(arguments) |-> arguments[k].shape \o arguments[k].strides])
    \o Flatten([k \in 1..Len(results) |-> results[k].shape])

\* C1: get_all_function_def_arguments() of a wrapper whose original variable
\* has rank r returns 1 + 2r descriptors: the wrapper itself, then the shape
\* variables of dimensions 1..r, then the stride variables of dimensions 1..r.
C1_FlattenedArgument ==
    ret.op = "get_all_function_def_arguments" =>
        LET w == arguments[ret.self]
            r == w.original.rank
            v == ret.value
            c == CallsBy(w.id)
        IN  /\ Len(v) = 1 + 2 * r
            /\ v[1] = w
            /\ \A i \in 1..r :
                 /\ v[1 + i].cls = "FunctionDefArgument"
                 /\ v[1 + i].var = w.shape[i]
                 /\ \E k \in 1..Len(c) :
                      /\ c[k].requested = ExpectedShapeName(w.var.name, i)
                      /\ HandedOut(v[1 + i].var, c[k])
                 /\ v[1 + r + i].cls = "FunctionDefArgument"
                 /\ v[1 + r + i].var = w.strides[i]
                 /\ \E k \in 1..Len(c) :
                      /\ c[k].requested = ExpectedStrideName(w.var.name, i)
                      /\ HandedOut(v[1 + r + i].var, c[k])

C1_Witness ==
    /\ ret.op = "get_all_function_def_arguments"
    /\ arguments[ret.self].original.rank = 2
    /\ Len(ret.value) = 5

\* C2 as stated: a wrapper holds r integer shape variables and r integer stride
\* variables, r the rank of the original variable, and the variable of
\* dimension i is named exactly '<name>_shape_<i>' resp. '<name>_stride_<i>'.
C2_AsClaimed ==
    \A a \in 1..Len(arguments) :
        LET w == arguments[a]
            r == w.original.rank
        IN  /\ Len(w.shape) = r
            /\ Len(w.strides) = r
            /\ \A i \in 1..r :
                 /\ w.shape[i].dtype = "NativeInteger"
                 /\ w.strides[i].dtype = "NativeInteger"
                 /\ w.shape[i].name = ExpectedShapeName(w.var.name, i)
                 /\ w.strides[i].name = ExpectedStrideName(w.var.name, i)

\* C2, amended: a wrapper holds r integer shape variables and r integer stride
\* variables, r the rank of the original variable; the name requested from the
\* scope for dimension i is exactly '<name>_shape_<i>' resp. '<name>_stride_<i>',
\* and the variable held carries that name when the name was free in the scope
\* and the different, fresh name the scope chose when it was taken.
C2_RequestedNames ==
    \A a \in 1..Len(arguments) :
        LET w == arguments[a]
            r == w.original.rank
            c == CallsBy(w.id)
        IN  /\ Len(w.shape) = r
            /\ Len(w.strides) = r
            /\ Len(c) = 2 * r
            /\ \A i \in 1..r :
                 /\ c[i].requested = ExpectedShapeName(w.var.name, i)
                 /\ c[r + i].requested = ExpectedStrideName(w.var.name, i)
                 /\ HandedOut(w.shape[i], c[i])
                 /\ HandedOut(w.strides[i], c[r + i])
                 /\ FreshAnswer(c[i])
                 /\ FreshAnswer(c[r + i])

C2_Witness ==
    \E a \in 1..Len(arguments) :
        /\ arguments[a].original.rank = 2
        /\ arguments[a].var.rank = 0
        /\ arguments[a].shape[1].name # ExpectedShapeName(arguments[a].var.name, 1)
        /\ arguments[a].shape[2].name = ExpectedShapeName(arguments[a].var.name, 2)

\* C3: whatever wrappers were built against the scope, the synthesized shape and
\* stride variables have pairwise distinct names, none of them a name that was
\* registered in the scope before.
C3_DistinctNames ==
    LET names == [k \in 1..Len(Synthesized) |-> Synthesized[k].name]
    IN  /\ \A i, j \in 1..Len(names) : i # j => names[i] # names[j]
        /\ \A i \in 1..Len(names) : names[i] \notin declared

C3_Witness ==
    \E i, j \in 1..Len(log) :
        /\ i < j
        /\ log[i].by # log[j].by
        /\ log[i].requested = log[j].requested
        /\ log[i].requested \notin declared
        /\ log[j].clash
        /\ Len(Synthesized) >= 4

\* C4 as stated: the mutability reported for the wrapped value is the flag the
\* caller supplied, and the one reported for every shape and stride is False.
C4_AsClaimed ==
    ret.op = "inout" =>
        LET w == arguments[ret.self]
        IN  IF w.original.rank = 0
            THEN ret.value = w.inout
            ELSE /\ Len(ret.value) = 1 + 2 * w.original.rank
                 /\ ret.value[1] = w.inout
                 /\ \A i \in 2..Len(ret.value) : ret.value[i] = FALSE

\* C5 as stated: get_all_function_def_results() of a wrapper whose original
\* variable has rank r returns 1 + r descriptors, the wrapper itself and then the
\* shape variables of dimensions 1..r, named '<name>_shape_<i>'; a result has no
\* stride variable.
C5_AsClaimed ==
    ret.op = "get_all_function_def_results" =>
        LET w == results[ret.self]
            r == w.original.rank
            v == ret.value
        IN  /\ Len(v) = 1 + r
            /\ v[1] = w
            /\ w.strides = <<>>
            /\ \A i \in 1..r :
                 /\ v[1 + i].cls = "FunctionDefResult"
                 /\ v[1 + i].var.name = ExpectedShapeName(w.original.name, i)

\* C5, amended: get_all_function_def_results() returns 1 + r descriptors, the
\* wrapper itself and then the shape variables of dimensions 1..r, the one of
\* dimension i being the variable the scope handed out for the requested name
\* '<name>_shape_<i>' (name of the original result variable), which carries that
\* name when it was free in the scope; a result has no stride variable and asks
\* the scope for none.
C5_FlattenedResult ==
    ret.op = "get_all_function_def_results" =>
        LET w == results[ret.self]
            r == w.original.rank
            v == ret.value
            c == CallsBy(w.id)
        IN  /\ Len(v) = 1 + r
            /\ v[1] = w
            /\ w.strides = <<>>
            /\ Len(c) = r
            /\ \A i \in 1..r :
                 /\ v[1 + i].cls = "FunctionDefResult"
                 /\ v[1 + i].var = w.shape[i]
                 /\ c[i].requested = ExpectedShapeName(w.original.name, i)
                 /\ HandedOut(v[1 + i].var, c[i])
                 /\ FreshAnswer(c[i])

C5_Witness ==
    /\ ret.op = "get_all_function_def_results"
    /\ results[ret.self].original.rank = 2
    /\ Len(ret.value) = 3
    /\ ret.value[2].var.name # ExpectedShapeName(results[ret.self].original.name, 1)
    /\ ret.value[3].var.name = ExpectedShapeName(results[ret.self].original.name, 2)

HasNoUpper(name) ==
    \A k \in 1..Len(name) : \A u \in 1..Len(Upper) : name[k] # Upper[u]

AllOfClass(objs, cls) == \A k \in 1..Len(objs) : objs[k].cls = cls

\* What BindCFunctionDef requires of its name, arguments and results
Acceptable(name, args, res) ==
    /\ HasNoUpper(name)
    /\ AllOfClass(args, "BindCFunctionDefArgument")
    /\ AllOfClass(res, "BindCFunctionDefResult")

\* C6: a BindCFunctionDef is built exactly when its name is lower-case, every
\* argument is a BindCFunctionDefArgument and every result a
\* BindCFunctionDefResult; otherwise the construction ends with an assertion
\* failure and no object.
C6_ConstructionContract ==
    /\ func # None =>
         /\ raised = ""
         /\ Acceptable(func.name, func.arguments, func.results)
    /\ raised # "" => func = None /\ raised = "AssertionError"
    /\ ret.op = "BindCFunctionDef" =>
         /\ func = None
         /\ raised = "AssertionError"
         /\ ~Acceptable(ret.value[1], ret.value[2], ret.value[3])

C6_Witness ==
    /\ ret.op = "BindCFunctionDef"
    /\ raised = "AssertionError"
    /\ func = None
    /\ HasNoUpper(ret.value[1])
    /\ Len(ret.value[2]) >= 1
    /\ AllOfClass(ret.value[2], "BindCFunctionDefArgument")
    /\ ~AllOfClass(ret.value[3], "BindCFunctionDefResult")

\* The sum of the first n entries of a sequence of numbers
RECURSIVE SumTo(_, _)
SumTo(f, n) == IF n = 0 THEN 0 ELSE SumTo(f, n - 1) + f[n]

\* Number of descriptors of each wrapper: 1 + 2r for an argument, 1 + s for a result
ArgWidth == [k \in 1..Len(arguments) |-> 1 + 2 * arguments[k].original.rank]

ResWidth == [k \in 1..Len(results) |-> 1 + results[k].original.rank]

\* C7: bind_c_arguments and bind_c_results are the wrappers, one per logical
\* argument or result, in order; arguments is the in-order concatenation of the
\* wrappers' descriptor lists (1 + 2r each: wrapper, shapes, strides) and
\* results that of the result wrappers' (1 + s each: wrapper, shapes).
C7_SignatureViews ==
    /\ ret.op = "bind_c_arguments" => ret.value = arguments
    /\ ret.op = "bind_c_results" => ret.value = results
    /\ ret.op = "arguments" =>
         /\ Len(ret.value) = SumTo(ArgWidth, Len(arguments))
         /\ \A j \in 1..Len(arguments) :
              LET off == SumTo(ArgWidth, j - 1)
                  w   == arguments[j]
                  r   == w.original.rank
              IN  /\ ret.value[off + 1] = w
                  /\ \A i \in 1..r :
                       /\ ret.value[off + 1 + i].var = w.shape[i]
                       /\ ret.value[off + 1 + r + i].var = w.strides[i]
    /\ ret.op = "results" =>
         /\ Len(ret.value) = SumTo(ResWidth, Len(results))
         /\ \A j \in 1..Len(results) :
              LET off == SumTo(ResWidth, j - 1)
                  w   == results[j]
              IN  /\ ret.value[off + 1] = w
                  /\ \A i \in 1..w.original.rank :
                       ret.value[off + 1 + i].var = w.shape[i]

C7_Witness ==
    /\ ret.op = "arguments"
    /\ Len(bind_c_arguments(func)) = 2
    /\ func.arguments[1].original.rank = 2
    /\ func.arguments[2].original.rank = 1
    /\ Len(ret.value) = 8

\* The accessors of the binding layer
Accessors ==
    {"get_all_function_def_arguments", "get_all_function_def_results",
     "arguments", "results"}

\* The variables under a list of descriptors
Underlying(descriptors) == [k \in 1..Len(descriptors) |-> descriptors[k].var]

\* The variables a wrapper stands for: its own, then its shapes, then its strides
Described(w) == <<w.var>> \o w.shape \o w.strides

\* The scope was asked once per synthesized descriptor, by the constructors
\* of the wrappers and in their order: 2r times for an argument wrapper of
\* original rank r, for shape 1..r then stride 1..r, and r times for a result
\* wrapper
AllocatedOncePerDescriptor ==
    /\ Len(log) = Len(Synthesized)
    /\ \A a \in 1..Len(arguments) :
          LET w == arguments[a]
              r == w.original.rank
              c == CallsBy(w.id)
          IN  /\ Len(c) = 2 * r
              /\ \A i \in 1..r :
                    /\ c[i].requested = ExpectedShapeName(w.var.name, i)
                    /\ c[i].got = w.shape[i].name
                    /\ c[r + i].requested = ExpectedStrideName(w.var.name, i)
                    /\ c[r + i].got = w.strides[i].name
    /\ \A b \in 1..Len(results) :
          LET w == results[b]
              r == w.original.rank
              c == CallsBy(w.id)
          IN  /\ Len(c) = r
              /\ \A i \in 1..r :
                    /\ c[i].requested = ExpectedShapeName(w.original.name, i)
                    /\ c[i].got = w.shape[i].name

\* What an accessor returned are the variables stored in the wrappers, in order
ReturnsStored ==
    /\ ret.op = "get_all_function_def_arguments" =>
          Underlying(ret.value) = Described(arguments[ret.self])
    /\ ret.op = "get_all_function_def_results" =>
          Underlying(ret.value) = Described(results[ret.self])
    /\ ret.op = "arguments" =>
          Underlying(ret.value)
             = Flatten([k \in 1..Len(func.arguments) |-> Described(func.arguments[k])])
    /\ ret.op = "results" =>
          Underlying(ret.value)
             = Flatten([k \in 1..Len(func.results) |-> Described(func.results[k])])

\* C27: the scope is asked for a temporary once per synthesized descriptor and
\* only while a wrapper is built: 2r times for an argument wrapper of original
\* rank r, in the order shape 1..r then stride 1..r, and r times for a result
\* wrapper; every call of get_all_function_def_arguments,
\* get_all_function_def_results, BindCFunctionDef.arguments or
\* BindCFunctionDef.results leaves the scope, the record of its calls and the
\* wrappers with their shape and stride lists as they were, and returns the
\* variables stored in the wrappers in their order.  (No request has been
\* made initially; the count is checked after every step that is not one of
\* these calls, and these calls change none of what is counted.)
C27_AllocationFrame ==
    [][/\ ret'.op \notin Accessors => AllocatedOncePerDescriptor'
       /\ ret'.op \in Accessors =>
             /\ scope' = scope
             /\ log' = log
             /\ arguments' = arguments
             /\ results' = results
             /\ func' = func
             /\ ReturnsStored']_vars

\* f.arguments read on a signature of an argument of rank 2 and a result of
\* rank 1, after 5 requests to the scope
C27_Witness ==
    /\ ret.op = "arguments"
    /\ func # None
    /\ Len(func.arguments) = 1
    /\ Len(func.results) = 1
    /\ func.arguments[1].original.rank = 2
    /\ func.results[1].original.rank = 1
    /\ Len(log) = 5
    /\ Len(ret.value) = 5

(***************************************************************************)
(* The builtin layer: objects and the numeric casts                         *)
(*                                                                         *)
(* An object is a record cls, dtype, precision, pytype, n, args,            *)
(* is_optional.  A literal's python_value is (pytype, n): n itself for an   *)
(* int or a bool, and the value counted in halves for a float, so that      *)
(* float() changes the representation and keeps the number.                 *)
(***************************************************************************)
Object(cls, dtype, precision, pytype, n, args, is_optional) ==
    [cls |-> cls, dtype |-> dtype, precision |-> precision, pytype |-> pytype,
     n |-> n, args |-> args, is_optional |-> is_optional]

\* arg.python_value
python_value(o) == [t |-> o.pytype, n |-> o.n]

\* Python's float(v) for an int or a float
py_float(v) == IF v.t = "float" THEN v ELSE [t |-> "float", n |-> 2 * v.n]

\* The number a python value stands for, in halves
Halves(v) == IF v.t = "float" THEN v.n ELSE 2 * v.n

\* The literal classes of pyccel.ast.literals, modelled from their use
LiteralInteger(value, precision) ==
    Object("LiteralInteger", "NativeInteger", precision, "int", value.n, <<>>, FALSE)

LiteralFloat(value, precision) ==
    Object("LiteralFloat", "NativeFloat", precision, "float", py_float(value).n, <<>>, FALSE)

LiteralTrue == Object("LiteralTrue", "NativeBool", -1, "bool", 1, <<>>, FALSE)

LiteralFalse == Object("LiteralFalse", "NativeBool", -1, "bool", 0, <<>>, FALSE)

Nil == Object("Nil", "", 0, "", 0, <<>>, FALSE)

\* A typed scalar variable of the builtin layer
TypedVariable(dtype, is_optional) ==
    Object("Variable", dtype, -1, "", 0, <<>>, is_optional)

\* A node built by PyccelInternalFunction.__init__(*args) or by an operator
Node(cls, dtype, precision, args) ==
    Object(cls, dtype, precision, "", 0, args, FALSE)

\* isinstance(o, Literal)
IsLiteral(o) ==
    o.cls \in {"LiteralInteger", "LiteralFloat", "LiteralTrue", "LiteralFalse",
               "LiteralComplex", "LiteralImaginaryUnit"}

\* The class attribute _precision of the three casts
PythonBool_precision == -1
PythonFloat_precision == -1
PythonInt_precision == -1

\* A construction leaves the heap it reached and the object it returned
Returned(h, id) == [heap |-> h, result |-> id]

Allocated(h, o) == Returned(Append(h, o), Len(h) + 1)

\* PythonBool.__new__ (and __init__ when an instance is returned)
PythonBool(h, arg) ==
    IF h[arg].is_optional
    THEN LET bool_expr == Allocated(h, Node("PythonBool", "NativeBool",
                                            PythonBool_precision, <<arg>>))
             nil       == Allocated(bool_expr.heap, Nil)
             is_not    == Allocated(nil.heap, Node("PyccelIsNot", "NativeBool", -1,
                                                   <<arg, nil.result>>))
         IN  Allocated(is_not.heap, Node("PyccelAnd", "NativeBool", -1,
                                         <<is_not.result, bool_expr.result>>))
    ELSE Allocated(h, Node("PythonBool", "NativeBool", PythonBool_precision, <<arg>>))

\* PythonFloat.__new__ building the literal anew whatever its precision
PythonFloat_always_new(h, arg) ==
    IF h[arg].cls \in {"LiteralInteger", "LiteralFloat"}
    THEN Allocated(h, LiteralFloat(python_value(h[arg]), PythonFloat_precision))
    ELSE Allocated(h, Node("PythonFloat", "NativeFloat", PythonFloat_precision, <<arg>>))

\* PythonFloat.__new__ (and __init__ when an instance is returned)
PythonFloat(h, arg) ==
    IF h[arg].cls = "LiteralFloat" /\ h[arg].precision = PythonFloat_precision
    THEN Returned(h, arg)
    ELSE IF h[arg].cls \in {"LiteralInteger", "LiteralFloat"}
    THEN Allocated(h, LiteralFloat(python_value(h[arg]), PythonFloat_precision))
    ELSE Allocated(h, Node("PythonFloat", "NativeFloat", PythonFloat_precision, <<arg>>))

\* PythonInt.__new__ handing back an operand that is an integer already
PythonInt_identity(h, arg) ==
    IF h[arg].cls = "LiteralInteger"
    THEN Allocated(h, LiteralInteger(python_value(h[arg]), PythonInt_precision))
    ELSE IF h[arg].dtype = "NativeInteger"
    THEN Returned(h, arg)
    ELSE Allocated(h, Node("PythonInt", "NativeInteger", PythonInt_precision, <<arg>>))

\* PythonInt.__new__ keeping the precision of the literal it is given
PythonInt_keep_precision(h, arg) ==
    IF h[arg].cls = "LiteralInteger"
    THEN Allocated(h, LiteralInteger(python_value(h[arg]), h[arg].precision))
    ELSE Allocated(h, Node("PythonInt", "NativeInteger", PythonInt_precision, <<arg>>))

\* PythonInt.__new__ (and __init__ when an instance is returned)
PythonInt(h, arg) ==
    IF h[arg].cls = "LiteralInteger"
    THEN Allocated(h, LiteralInteger(python_value(h[arg]), PythonInt_precision))
    ELSE Allocated(h, Node("PythonInt", "NativeInteger", PythonInt_precision, <<arg>>))

(***************************************************************************)
(* The casts as a state machine: an operand made by an earlier stage, then  *)
(* casts applied to any object at hand, their results included.             *)
(***************************************************************************)
IntValues == {[t |-> "int", n |-> 0], [t |-> "int", n |-> 3]}

\* 0.0 and 1.5
FloatValues == {[t |-> "float", n |-> 0], [t |-> "float", n |-> 3]}

Operands ==
    {LiteralInteger(v, p) : v \in IntValues, p \in {-1, 8}}
    \cup {LiteralFloat(v, p) : v \in FloatValues, p \in {-1, 4}}
    \cup {LiteralTrue, LiteralFalse}
    \cup {TypedVariable(d, o) :
            d \in {"NativeBool", "NativeInteger", "NativeFloat", "NativeComplex"},
            o \in BOOLEAN}

InitCast ==
    /\ \E o \in Operands : heap = <<o>>
    /\ last = NoCall
    /\ pyccel_stage = "semantic"
    /\ declared = {}
    /\ scope = {}
    /\ log = <<>>
    /\ arguments = <<>>
    /\ results = <<>>
    /\ func = None
    /\ raised = ""
    /\ ret = NoRet

Called(op, arg, new) ==
    /\ heap' = new.heap
    /\ last' = [op |-> op, arg |-> arg, result |-> new.result, before |-> Len(heap)]
    /\ UNCHANGED bindVars
    /\ UNCHANGED pyccel_stage

CallPythonBool ==
    /\ Len(heap) < MaxObjects
    /\ \E x \in 1..Len(heap) : Called("PythonBool", x, PythonBool(heap, x))

CallPythonFloat ==
    /\ Len(heap) < MaxObjects
    /\ \E x \in 1..Len(heap) : Called("PythonFloat", x, PythonFloat(heap, x))

CallPythonInt ==
    /\ Len(heap) < MaxObjects
    /\ \E x \in 1..Len(heap) : Called("PythonInt", x, PythonInt(heap, x))

NextCast ==
    \/ CallPythonBool
    \/ CallPythonFloat
    \/ CallPythonInt

SpecCast == InitCast /\ [][NextCast]_vars

(***************************************************************************)
(* Properties of the casts                                                  *)
(***************************************************************************)
Casts == {"PythonBool", "PythonFloat", "PythonInt"}

\* The element kind a cast produces
CastKind(op) ==
    CASE op = "PythonBool" -> "NativeBool"
      [] op = "PythonFloat" -> "NativeFloat"
      [] op = "PythonInt" -> "NativeInteger"

\* The precision the casts produce: the default one
TargetPrecision == -1

\* The objects the last call allocated
NewObjects == (last.before + 1)..Len(heap)

\* The cast nodes of the called class the last call allocated
NewCastNodes == {k \in NewObjects : heap[k].cls = last.op}

\* Object k is a cast node of the called class over the operand of the call
IsCastOfOperand(k) ==
    /\ heap[k].cls = last.op
    /\ heap[k].dtype = CastKind(last.op)
    /\ heap[k].precision = TargetPrecision
    /\ heap[k].args = <<last.arg>>

Foldable(op, o) ==
    \/ op = "PythonInt" /\ o.cls = "LiteralInteger"
    \/ op = "PythonFloat" /\ o.cls \in {"LiteralInteger", "LiteralFloat"}
    \/ op = "PythonBool" /\ o.cls \in {"LiteralTrue", "LiteralFalse", "LiteralInteger"}

\* Object r is a literal of the kind of cast op, at its precision, with the value of o
FoldedLiteral(op, r, o) ==
    /\ IsLiteral(r)
    /\ r.dtype = CastKind(op)
    /\ r.precision = TargetPrecision
    /\ CASE op = "PythonInt" ->
              r.cls = "LiteralInteger" /\ r.pytype = "int" /\ r.n = o.n
         [] op = "PythonFloat" ->
              /\ r.cls = "LiteralFloat"
              /\ r.pytype = "float"
              /\ Halves(python_value(r)) = Halves(python_value(o))
         [] op = "PythonBool" ->
              r.cls = (IF o.n # 0 THEN "LiteralTrue" ELSE "LiteralFalse")

MaxHeap == 5

\* Python's v + w and v - w on int, bool and float values
py_add(v, w) ==
    IF v.t = "float" \/ w.t = "float"
    THEN [t |-> "float", n |-> Halves(v) + Halves(w)]
    ELSE [t |-> "int", n |-> v.n + w.n]

py_sub(v, w) ==
    IF v.t = "float" \/ w.t = "float"
    THEN [t |-> "float", n |-> Halves(v) - Halves(w)]
    ELSE [t |-> "int", n |-> v.n - w.n]

py_zero == [t |-> "int", n |-> 0]

\* LiteralComplex(real, imag, precision) of pyccel.ast.literals: the parts are
\* kept as float literals
LiteralComplex(real, imag, precision) ==
    [cls |-> "LiteralComplex", dtype |-> "NativeComplex", precision |-> precision,
     pytype |-> "complex", n |-> 0, args |-> <<>>, is_optional |-> FALSE,
     real |-> LiteralFloat(real, -1), imag |-> LiteralFloat(imag, -1)]

\* LiteralImaginaryUnit(): the complex literal 1j
LiteralImaginaryUnit ==
    [LiteralComplex(py_zero, [t |-> "int", n |-> 1], -1)
        EXCEPT !.cls = "LiteralImaginaryUnit"]

\* isinstance(o, LiteralComplex)
IsLiteralComplex(o) == o.cls \in {"LiteralComplex", "LiteralImaginaryUnit"}

\* arg.python_value == 0
python_value_is_zero(o) ==
    IF IsLiteralComplex(o) THEN o.real.n = 0 /\ o.imag.n = 0 ELSE o.n = 0

\* convert_to_literal(0, dtype = dtype) of pyccel.ast.literals
convert_to_literal_0(dtype) ==
    CASE dtype = "NativeInteger" -> LiteralInteger(py_zero, -1)
      [] dtype = "NativeFloat" -> LiteralFloat(py_zero, -1)
      [] dtype = "NativeBool" -> LiteralFalse
      [] dtype = "NativeComplex" -> LiteralComplex(py_zero, py_zero, -1)

\* type.__call__ runs __init__ on whatever __new__ returned when that is an
\* instance of the class called: PyccelInternalFunction.__init__(self, arg)
\* stores (arg,) as the arguments of the node.
Reinitialised(h, cls, new, arg) ==
    IF h[new].cls = cls THEN [h EXCEPT ![new].args = <<arg>>] ELSE h

\* PythonReal.__new__ building a node for every operand that is not boolean
PythonReal_always_node(h, arg) ==
    IF h[arg].dtype = "NativeBool"
    THEN PythonInt(h, arg)
    ELSE Allocated(h, Node("PythonReal", "NativeFloat", -1, <<arg>>))

\* PythonReal.__new__ (and __init__ when an instance is returned)
PythonReal(h, arg) ==
    IF h[arg].dtype = "NativeBool"
    THEN PythonInt(h, arg)
    ELSE IF h[arg].dtype # "NativeComplex"
    THEN Returned(Reinitialised(h, "PythonReal", arg, arg), arg)
    ELSE Allocated(h, Node("PythonReal", "NativeFloat", -1, <<arg>>))

\* PythonImag.__new__ (and __init__ when an instance is returned)
PythonImag(h, arg) ==
    IF h[arg].dtype # "NativeComplex"
    THEN Allocated(h, convert_to_literal_0(h[arg].dtype))
    ELSE Allocated(h, Node("PythonImag", "NativeFloat", -1, <<arg>>))

\* PythonConjugate.__new__ (and __init__ when an instance is returned)
PythonConjugate(h, arg) ==
    IF h[arg].dtype = "NativeBool"
    THEN PythonInt(h, arg)
    ELSE IF h[arg].dtype # "NativeComplex"
    THEN Returned(Reinitialised(h, "PythonConjugate", arg, arg), arg)
    ELSE Allocated(h, Node("PythonConjugate", "NativeComplex", -1, <<arg>>))

\* The literal branch of PythonComplex.__new__ with the imaginary part of the
\* second operand added to the real part
PythonComplex_literal_added(arg0, arg1) ==
    LET real_0 == IF IsLiteralComplex(arg0)
                  THEN py_add(py_zero, python_value(arg0.real))
                  ELSE py_add(py_zero, python_value(arg0))
        imag_0 == IF IsLiteralComplex(arg0)
                  THEN py_add(py_zero, python_value(arg0.imag))
                  ELSE py_zero
        real_part == IF IsLiteralComplex(arg1)
                     THEN py_add(real_0, python_value(arg1.imag))
                     ELSE real_0
        imag_part == IF IsLiteralComplex(arg1)
                     THEN py_add(imag_0, python_value(arg1.real))
                     ELSE py_add(imag_0, python_value(arg1))
    IN  LiteralComplex(real_part, imag_part, -1)

\* The literal branch of PythonComplex.__new__: the parts are collected from
\* the two literals and a complex literal is built from them
PythonComplex_literal(arg0, arg1) ==
    LET real_0 == IF IsLiteralComplex(arg0)
                  THEN py_add(py_zero, python_value(arg0.real))
                  ELSE py_add(py_zero, python_value(arg0))
        imag_0 == IF IsLiteralComplex(arg0)
                  THEN py_add(py_zero, python_value(arg0.imag))
                  ELSE py_zero
        real_part == IF IsLiteralComplex(arg1)
                     THEN py_sub(real_0, python_value(arg1.imag))
                     ELSE real_0
        imag_part == IF IsLiteralComplex(arg1)
                     THEN py_add(imag_0, python_value(arg1.real))
                     ELSE py_add(imag_0, python_value(arg1))
    IN  LiteralComplex(real_part, imag_part, -1)

\* A PythonComplex instance: PythonComplex.__init__ passes no argument on to
\* TypedAstNode.__init__ and keeps its parts in slots of its own
ComplexNode(is_cast, real_part, imag_part, internal_var) ==
    [cls |-> "PythonComplex", dtype |-> "NativeComplex", precision |-> -1,
     pytype |-> "", n |-> 0, args |-> <<>>, is_optional |-> FALSE,
     is_cast |-> is_cast, real_part |-> real_part, imag_part |-> imag_part,
     internal_var |-> internal_var]

\* self._is_cast computed from the first operand alone
PythonComplex_is_cast_any_second(h, arg0, arg1) ==
    h[arg0].dtype = "NativeComplex"

\* self._is_cast as PythonComplex.__init__ computes it
PythonComplex_is_cast(h, arg0, arg1) ==
    /\ h[arg0].dtype = "NativeComplex"
    /\ IsLiteral(h[arg1])
    /\ python_value_is_zero(h[arg1])

\* The rewrite branch of PythonComplex.__new__ taken as soon as one of the
\* operands is complex-typed
PythonComplex_rewrites_either(h, arg0, arg1) ==
    /\ ~(IsLiteral(h[arg0]) /\ IsLiteral(h[arg1]))
    /\ (h[arg0].dtype = "NativeComplex" \/ h[arg1].dtype = "NativeComplex")

\* The operands PythonComplex.__new__ rewrites to arg0 + arg1*1j: the test of
\* the second branch, reached when the first was not taken
PythonComplex_rewrites(h, arg0, arg1) ==
    /\ ~(IsLiteral(h[arg0]) /\ IsLiteral(h[arg1]))
    /\ h[arg0].dtype = "NativeComplex"
    /\ h[arg1].dtype = "NativeComplex"

\* PythonComplex.__init__ taking the real part from the first operand and the
\* imaginary part from the second, whatever their kinds
PythonComplex_init_symmetric(h, self, arg0, arg1) ==
    LET re == PythonReal(h, arg0)
        im == PythonReal(re.heap, arg1)
    IN  Returned([im.heap EXCEPT ![self] =
                     ComplexNode(PythonComplex_is_cast(h, arg0, arg1),
                                 re.result, im.result, arg0)], self)

\* PythonComplex.__init__(self, arg0, arg1) on the instance at position self
PythonComplex_init(h, self, arg0, arg1) ==
    LET is_cast == PythonComplex_is_cast(h, arg0, arg1)
        zero0   == IsLiteral(h[arg0]) /\ python_value_is_zero(h[arg0])
        float   == "NativeFloat"
    IN  IF is_cast \/ (h[arg0].dtype # "NativeComplex" /\ h[arg1].dtype # "NativeComplex")
        THEN \* real_cast(arg0), then imag_cast(arg0) for a cast, real_cast(arg1) else
             LET re == PythonReal(h, arg0)
                 im == IF is_cast THEN PythonImag(re.heap, arg0)
                       ELSE PythonReal(re.heap, arg1)
             IN  Returned([im.heap EXCEPT ![self] =
                              ComplexNode(is_cast, re.result, im.result,
                                          IF is_cast THEN arg0 ELSE 0)], self)
        ELSE IF h[arg0].dtype = "NativeComplex"
        THEN \* first operand complex, second not the literal zero
             LET re  == PythonReal(h, arg0)
                 im  == PythonImag(re.heap, arg0)
                 add == Allocated(im.heap, Node("PyccelAdd", float, -1,
                                                <<im.result, arg1>>))
             IN  Returned([add.heap EXCEPT ![self] =
                              ComplexNode(FALSE, re.result, add.result, 0)], self)
        ELSE \* second operand complex
             LET im1 == PythonImag(h, arg1)
                 sub == IF zero0
                        THEN Allocated(im1.heap, Node("PyccelUnarySub", float, -1,
                                                      <<im1.result>>))
                        ELSE Allocated(im1.heap, Node("PyccelMinus", float, -1,
                                                      <<arg0, im1.result>>))
                 re1 == PythonReal(sub.heap, arg1)
             IN  Returned([re1.heap EXCEPT ![self] =
                              ComplexNode(FALSE, sub.result, re1.result, 0)], self)

\* PythonComplex.__new__ (and __init__ when an instance is returned)
PythonComplex(h, arg0, arg1) ==
    IF IsLiteral(h[arg0]) /\ IsLiteral(h[arg1])
    THEN Allocated(h, PythonComplex_literal(h[arg0], h[arg1]))
    ELSE IF PythonComplex_rewrites(h, arg0, arg1)
    THEN LET unit == Allocated(h, LiteralImaginaryUnit)
             mul  == Allocated(unit.heap, Node("PyccelMul", "NativeComplex", -1,
                                               <<arg1, unit.result>>))
         IN  Allocated(mul.heap, Node("PyccelAdd", "NativeComplex", -1,
                                      <<arg0, mul.result>>))
    ELSE LET self == Allocated(h, ComplexNode(FALSE, 0, 0, 0))
         IN  PythonComplex_init(self.heap, self.result, arg0, arg1)

(***************************************************************************)
(* Complex numbers as a state machine: the shared default second operand    *)
(* of complex(), two operands made by an earlier stage, then calls on any   *)
(* objects at hand, their results included.                                 *)
(***************************************************************************)
\* The operands an earlier stage hands over: the literals 2, 3, 1.5, 0.5+2j
\* and True, and a boolean, a float and a complex variable
ComplexOperandList ==
    <<LiteralInteger([t |-> "int", n |-> 2], -1),
      LiteralInteger([t |-> "int", n |-> 3], -1),
      LiteralFloat([t |-> "float", n |-> 3], -1),
      LiteralComplex([t |-> "float", n |-> 1], [t |-> "float", n |-> 4], -1),
      LiteralTrue,
      TypedVariable("NativeBool", FALSE),
      TypedVariable("NativeFloat", FALSE),
      TypedVariable("NativeComplex", FALSE)>>

\* The default value of the parameter arg1 of PythonComplex: one object, made
\* when the class is defined
PythonComplex_arg1_default == LiteralFloat([t |-> "float", n |-> 0], -1)

InitComplex ==
    /\ \E i, j \in 1..Len(ComplexOperandList) :
          /\ i <= j
          /\ heap = <<PythonComplex_arg1_default,
                      ComplexOperandList[i], ComplexOperandList[j]>>
    /\ last = [op |-> "", arg |-> <<>>, result |-> 0, before |-> 3]
    /\ pyccel_stage = "semantic"
    /\ raised = ""
    /\ declared = {}
    /\ scope = {}
    /\ log = <<>>
    /\ arguments = <<>>
    /\ results = <<>>
    /\ func = None
    /\ ret = NoRet

\* The variables a call on the builtin layer leaves alone
builtinFrame == <<scope, declared, log, arguments, results, func, ret, pyccel_stage>>

Built(op, arg, new) ==
    /\ heap' = new.heap
    /\ last' = [op |-> op, arg |-> arg, result |-> new.result, before |-> Len(heap)]
    /\ raised' = ""
    /\ UNCHANGED builtinFrame

Failed(op, arg, error) ==
    /\ last' = [op |-> op, arg |-> arg, result |-> 0, before |-> Len(heap)]
    /\ raised' = error
    /\ UNCHANGED heap
    /\ UNCHANGED builtinFrame

\* complex(a, b), and complex(a) when b is the default
CallPythonComplex ==
    /\ Len(heap) < MaxHeap
    /\ \E a, b \in 1..Len(heap) :
          Built("PythonComplex", <<a, b>>, PythonComplex(heap, a, b))

CallPythonReal ==
    /\ Len(heap) < MaxHeap
    /\ \E x \in 1..Len(heap) : Built("PythonReal", <<x>>, PythonReal(heap, x))

CallPythonImag ==
    /\ Len(heap) < MaxHeap
    /\ \E x \in 1..Len(heap) : Built("PythonImag", <<x>>, PythonImag(heap, x))

CallPythonConjugate ==
    /\ Len(heap) < MaxHeap
    /\ \E x \in 1..Len(heap) :
          Built("PythonConjugate", <<x>>, PythonConjugate(heap, x))

\* PythonComplex.internal_var
ReadInternalVar ==
    \E x \in 1..Len(heap) :
       /\ heap[x].cls = "PythonComplex"
       /\ IF heap[x].is_cast
          THEN Built("internal_var", <<x>>, Returned(heap, heap[x].internal_var))
          ELSE Failed("internal_var", <<x>>, "AssertionError")

NextComplex ==
    \/ CallPythonComplex
    \/ CallPythonReal
    \/ CallPythonImag
    \/ CallPythonConjugate
    \/ ReadInternalVar

SpecComplex == InitComplex /\ [][NextComplex]_vars

(***************************************************************************)
(* Properties of the complex numbers                                        *)
(***************************************************************************)
\* The real and the imaginary part of a literal, in halves
Re(o) == IF IsLiteralComplex(o) THEN o.real.n ELSE Halves(python_value(o))

Im(o) == IF IsLiteralComplex(o) THEN o.imag.n ELSE 0

\* The PythonComplex nodes the last call allocated
NewComplexNodes == {k \in NewObjects : heap[k].cls = "PythonComplex"}

\* C11: PythonComplex of two literals, each real-valued or complex, returns one
\* complex literal with real part re(a) - im(b) and imaginary part
\* im(a) + re(b), and creates no PythonComplex node.
C11_LiteralComplex ==
    (/\ last.op = "PythonComplex"
     /\ IsLiteral(heap[last.arg[1]])
     /\ IsLiteral(heap[last.arg[2]]))
    => LET a == heap[last.arg[1]]
           b == heap[last.arg[2]]
           r == heap[last.result]
       IN  /\ NewObjects = {last.result}
           /\ IsLiteralComplex(r)
           /\ r.dtype = "NativeComplex"
           /\ r.real.n = Re(a) - Im(b)
           /\ r.imag.n = Im(a) + Re(b)
           /\ NewComplexNodes = {}

\* complex(LiteralInteger(2), LiteralInteger(3)) is the literal 2+3j
C11_Witness ==
    /\ last.op = "PythonComplex"
    /\ heap[last.arg[1]] = LiteralInteger([t |-> "int", n |-> 2], -1)
    /\ heap[last.arg[2]] = LiteralInteger([t |-> "int", n |-> 3], -1)
    /\ heap[last.result].cls = "LiteralComplex"
    /\ heap[last.result].real.n = 4
    /\ heap[last.result].imag.n = 6

\* The last call returned a + b*1j built from PyccelAdd and PyccelMul
Rewritten ==
    /\ last.result \in NewObjects
    /\ heap[last.result].cls = "PyccelAdd"
    /\ Len(heap[last.result].args) = 2
    /\ heap[last.result].args[1] = last.arg[1]
    /\ LET mul == heap[last.result].args[2]
       IN  /\ mul \in NewObjects
           /\ heap[mul].cls = "PyccelMul"
           /\ Len(heap[mul].args) = 2
           /\ heap[mul].args[1] = last.arg[2]
           /\ heap[heap[mul].args[2]].cls = "LiteralImaginaryUnit"

BothComplexTyped ==
    /\ heap[last.arg[1]].dtype = "NativeComplex"
    /\ heap[last.arg[2]].dtype = "NativeComplex"

\* C12 as stated: PythonComplex returns a + b*1j exactly when both operands
\* are non-literal and both are complex-typed.
C12_AsClaimed ==
    last.op = "PythonComplex" =>
        (Rewritten <=> (/\ ~IsLiteral(heap[last.arg[1]])
                        /\ ~IsLiteral(heap[last.arg[2]])
                        /\ BothComplexTyped))

\* C12, amended: PythonComplex returns a + b*1j, built from PyccelAdd and
\* PyccelMul with no PythonComplex node, exactly when both operands are
\* complex-typed and at least one of them is not a literal: also for a complex
\* literal paired with a non-literal complex operand.
C12_ComplexRewrite ==
    last.op = "PythonComplex" =>
        /\ Rewritten <=>
              (/\ BothComplexTyped
               /\ ~(IsLiteral(heap[last.arg[1]]) /\ IsLiteral(heap[last.arg[2]])))
        /\ Rewritten => NewComplexNodes = {}

\* A complex literal and a complex variable are rewritten to a sum
C12_Witness ==
    /\ last.op = "PythonComplex"
    /\ heap[last.arg[1]].cls = "LiteralComplex"
    /\ heap[last.arg[2]].cls = "Variable"
    /\ heap[last.arg[2]].dtype = "NativeComplex"
    /\ Rewritten
    /\ NewComplexNodes = {}

\* Object k is the accessor node cls over operand x
IsAccessorOf(k, cls, x) ==
    /\ k \in 1..Len(heap)
    /\ heap[k].cls = cls
    /\ heap[k].args = <<x>>

\* C13: on every constructed PythonComplex node is_cast is True exactly when
\* the first operand is complex-typed and the second a literal of value zero;
\* a cast has the first operand as internal_var and that operand's PythonReal
\* and PythonImag as real and imag; on any other node reading internal_var
\* fails an assertion and returns nothing.
C13_CastView ==
    /\ (last.op = "PythonComplex" /\ heap[last.result].cls = "PythonComplex") =>
          LET node == heap[last.result]
              a    == last.arg[1]
              b    == last.arg[2]
          IN  /\ node.is_cast <=> (/\ heap[a].dtype = "NativeComplex"
                                   /\ IsLiteral(heap[b])
                                   /\ python_value_is_zero(heap[b]))
              /\ node.is_cast =>
                    /\ node.internal_var = a
                    /\ IsAccessorOf(node.real_part, "PythonReal", a)
                    /\ IsAccessorOf(node.imag_part, "PythonImag", a)
    /\ last.op = "internal_var" =>
          LET node == heap[last.arg[1]]
          IN  IF node.is_cast
              THEN /\ raised = ""
                   /\ last.result = node.internal_var
                   /\ heap[last.result].dtype = "NativeComplex"
              ELSE /\ raised = "AssertionError"
                   /\ last.result = 0

\* internal_var read on a cast of a complex variable
C13_Witness ==
    /\ last.op = "internal_var"
    /\ raised = ""
    /\ heap[last.arg[1]].is_cast
    /\ heap[last.result].cls = "Variable"
    /\ heap[last.result].dtype = "NativeComplex"
    /\ \E k \in 1..Len(heap) :
          /\ heap[k].cls = "PythonComplex"
          /\ ~heap[k].is_cast

\* C14: PythonReal, PythonImag and PythonConjugate build a node of their own
\* exactly when the operand is complex-typed.  For any other operand .real and
\* .conjugate() return the operand itself, or PythonInt of it when it is
\* boolean, and .imag returns a zero literal of the operand's kind.
C14_ComplexAccessors ==
    last.op \in {"PythonReal", "PythonImag", "PythonConjugate"} =>
        LET x == last.arg[1]
            r == last.result
        IN  /\ (NewCastNodes # {}) <=> (heap[x].dtype = "NativeComplex")
            /\ IF heap[x].dtype = "NativeComplex"
               THEN /\ NewObjects = {r}
                    /\ IsAccessorOf(r, last.op, x)
               ELSE IF last.op = "PythonImag"
               THEN /\ NewObjects = {r}
                    /\ IsLiteral(heap[r])
                    /\ heap[r].dtype = heap[x].dtype
                    /\ python_value_is_zero(heap[r])
               ELSE IF heap[x].dtype = "NativeBool"
               THEN /\ NewObjects = {r}
                    /\ IsAccessorOf(r, "PythonInt", x)
               ELSE /\ r = x
                    /\ NewObjects = {}

\* .conjugate() of a boolean variable is PythonInt of it
C14_Witness ==
    /\ last.op = "PythonConjugate"
    /\ heap[last.arg[1]].cls = "Variable"
    /\ heap[last.arg[1]].dtype = "NativeBool"
    /\ heap[last.result].cls = "PythonInt"
    /\ heap[last.result].args = <<last.arg[1]>>

\* The number an expression stands for, as a pair of linear forms (real and
\* imaginary part) over the constant 1 (position 0) and, for the object at
\* heap position i, its real part (position 2i-1) and its imaginary part
\* (position 2i); constants are counted in halves.
Forms(h) == 0..(2 * Len(h))

NoForm(h) == [k \in Forms(h) |-> 0]

Constant(h, c) == [NoForm(h) EXCEPT ![0] = c]

Unknown(h, k) == [NoForm(h) EXCEPT ![k] = 1]

Plus(f, g) == [k \in DOMAIN f |-> f[k] + g[k]]

Less(f, g) == [k \in DOMAIN f |-> f[k] - g[k]]

\* An object standing for itself: a variable, or a node whose meaning is not
\* given by its operands
Atom(h, id) ==
    [re |-> Unknown(h, 2 * id - 1),
     im |-> IF h[id].dtype = "NativeComplex" THEN Unknown(h, 2 * id) ELSE NoForm(h)]

RECURSIVE Denotes(_, _)
Denotes(h, id) ==
    LET o == h[id]
    IN  IF IsLiteral(o)
        THEN [re |-> Constant(h, Re(o)), im |-> Constant(h, Im(o))]
        ELSE IF o.cls = "PythonComplex"
        THEN LET r == Denotes(h, o.real_part)
                 i == Denotes(h, o.imag_part)
             IN  [re |-> Less(r.re, i.im), im |-> Plus(r.im, i.re)]
        ELSE IF o.args = <<>> \/ \E k \in 1..Len(o.args) : o.args[k] = id
        THEN Atom(h, id)
        ELSE LET x == Denotes(h, o.args[1])
             IN  CASE o.cls = "PythonReal" -> [re |-> x.re, im |-> NoForm(h)]
                   [] o.cls = "PythonImag" -> [re |-> x.im, im |-> NoForm(h)]
                   [] o.cls = "PythonConjugate" ->
                         [re |-> x.re, im |-> Less(NoForm(h), x.im)]
                   [] o.cls = "PyccelUnarySub" ->
                         [re |-> Less(NoForm(h), x.re), im |-> Less(NoForm(h), x.im)]
                   [] o.cls = "PyccelAdd" ->
                         LET y == Denotes(h, o.args[2])
                         IN  [re |-> Plus(x.re, y.re), im |-> Plus(x.im, y.im)]
                   [] o.cls = "PyccelMinus" ->
                         LET y == Denotes(h, o.args[2])
                         IN  [re |-> Less(x.re, y.re), im |-> Less(x.im, y.im)]
                   [] o.cls = "PyccelMul" /\ h[o.args[2]].cls = "LiteralImaginaryUnit" ->
                         [re |-> Less(NoForm(h), x.im), im |-> x.re]
                   [] o.cls = "PythonInt" /\ h[o.args[1]].dtype = "NativeBool" -> x
                   [] OTHER -> Atom(h, id)

\* C26: the real and the imaginary part every PythonComplex node exposes are
\* real-valued and equal, as expressions in the operands (a, b) it was built
\* from, to re(a) - im(b) and im(a) + re(b), the rule by which two literals
\* are folded, in each case of the constructor: a complex and b the literal
\* zero, a complex and b real, b complex and a the literal zero, b complex
\* and a real, neither complex.
C26_ComplexParts ==
    (last.op = "PythonComplex" /\ NewComplexNodes # {}) =>
        LET a    == Denotes(heap, last.arg[1])
            b    == Denotes(heap, last.arg[2])
            real == Denotes(heap, heap[last.result].real_part)
            imag == Denotes(heap, heap[last.result].imag_part)
        IN  /\ NewComplexNodes = {last.result}
            /\ real.re = Less(a.re, b.im)
            /\ imag.re = Plus(a.im, b.re)
            /\ real.im = NoForm(heap)
            /\ imag.im = NoForm(heap)

\* complex(2, z) for a complex variable z has the parts 2 - imag(z) and real(z)
C26_Witness ==
    /\ last.op = "PythonComplex"
    /\ NewComplexNodes = {last.result}
    /\ heap[last.arg[1]] = LiteralInteger([t |-> "int", n |-> 2], -1)
    /\ heap[last.arg[2]] = TypedVariable("NativeComplex", FALSE)
    /\ heap[heap[last.result].real_part].cls = "PyccelMinus"
    /\ heap[heap[last.result].imag_part].cls = "PythonReal"

(***************************************************************************)
(* Tuples, lists, tuple() and len()                                         *)
(*                                                                         *)
(* A typed object of this layer is a record                                 *)
(*   cls, typed, dtype, precision, rank, shape, order, args, n,             *)
(*   has_is_homogeneous, is_homogeneous, inconsistent_shape                 *)
(* A datatype is a record (name, elems), elems being the element types of   *)
(* an inhomogeneous tuple type.  A shape is None or a sequence of entries,  *)
(* each a literal integer, an expression or None (unknown).                 *)
(***************************************************************************)
MaxElements == 2

DType(name) == [name |-> name, elems |-> <<>>]

NativeGeneric == DType("NativeGeneric")

\* NativeInhomogeneousTuple(*dtypes)
NativeInhomogeneousTuple(dtypes) ==
    [name |-> "NativeInhomogeneousTuple", elems |-> dtypes]

\* A shape: None for a scalar, a tuple of entries otherwise
ShapeNone == [none |-> TRUE, dims |-> <<>>]

Shape(dims) == [none |-> FALSE, dims |-> dims]

\* The entries of a shape
LiteralIntegerDim(k) == [cls |-> "LiteralInteger", n |-> k]

UnknownDim == [cls |-> "None", n |-> 0]

ExprDim == [cls |-> "PyccelArrayShapeElement", n |-> 0]

NoDim == [cls |-> "", n |-> 0]

\* A typed node as pyccel.ast.basic.TypedAstNode exposes it
TypedNode(cls, dtype, precision, rank, shape, order, args) ==
    [cls |-> cls, typed |-> TRUE, dtype |-> dtype, precision |-> precision,
     rank |-> rank, shape |-> shape, order |-> order, args |-> args, n |-> 0,
     has_is_homogeneous |-> FALSE, is_homogeneous |-> FALSE,
     inconsistent_shape |-> FALSE]

\* A node built in the syntactic stage: the arguments and nothing else
UntypedNode(cls, args) ==
    [TypedNode(cls, DType(""), 0, 0, ShapeNone, "None", args) EXCEPT !.typed = FALSE]

\* default_precision and get_final_precision of pyccel.ast: the precision
\* to use in place of the default marker -1
default_precision(dtype) ==
    IF dtype.name \in {"NativeInteger", "NativeFloat", "NativeComplex"} THEN 8 ELSE -1

get_final_precision(o) ==
    IF o.precision = -1 THEN default_precision(o.dtype) ELSE o.precision

\* max(a.rank for a in args)
RECURSIVE max_rank(_, _)
max_rank(h, args) ==
    IF Len(args) = 1 THEN h[args[1]].rank
    ELSE LET m == max_rank(h, Tail(args))
         IN  IF h[args[1]].rank > m THEN h[args[1]].rank ELSE m

\* The homogeneity test without the test for generic elements
is_homogeneous_generic_allowed(h, args) ==
    LET arg0      == h[args[1]]
        precision == get_final_precision(arg0)
    IN  \A k \in 2..Len(args) :
           LET a == h[args[k]]
           IN  /\ arg0.dtype = a.dtype
               /\ precision = get_final_precision(a)
               /\ arg0.rank = a.rank
               /\ arg0.order = a.order

\* The homogeneity test of PythonTuple.__init__ and PythonList.__init__
is_homogeneous(h, args) ==
    LET arg0      == h[args[1]]
        precision == get_final_precision(arg0)
    IN  /\ arg0.dtype # NativeGeneric
        /\ \A k \in 2..Len(args) :
              LET a == h[args[k]]
              IN  /\ a.dtype # NativeGeneric
                  /\ arg0.dtype = a.dtype
                  /\ precision = get_final_precision(a)
                  /\ arg0.rank = a.rank
                  /\ arg0.order = a.order

\* The empty tuple or list of the typed stage
EmptyAggregate(cls) ==
    TypedNode(cls, NativeGeneric, 0, 0, ShapeNone, "None", <<>>)

\* The attributes of a homogeneous tuple or list, row-major whatever the rank
HomogeneousAggregate_row_major(h, cls, args) ==
    LET arg0  == h[args[1]]
        shape == <<LiteralIntegerDim(Len(args))>>
                 \o (IF arg0.rank = 0 THEN <<>> ELSE arg0.shape.dims)
    IN  TypedNode(cls, arg0.dtype, arg0.precision, Len(shape), Shape(shape), "C", args)

\* The attributes of a homogeneous tuple or list of the elements args
HomogeneousAggregate(h, cls, args) ==
    LET arg0        == h[args[1]]
        inner_shape == [k \in 1..Len(args) |->
                           IF h[args[k]].rank = 0 THEN <<>> ELSE h[args[k]].shape.dims]
        shape       == <<LiteralIntegerDim(Len(args))>> \o inner_shape[1]
        rank        == Len(shape)
    IN  TypedNode(cls, arg0.dtype, arg0.precision, rank, Shape(shape),
                  IF rank < 2 THEN "None" ELSE "C", args)

\* What a call of this layer leaves: the heap, the object returned (0 if
\* none), the shape entry returned (by len()) and the exception raised
Ok(h, id) == [heap |-> h, result |-> id, value |-> NoDim, error |-> ""]

New(h, o) == Ok(Append(h, o), Len(h) + 1)

Value(h, v) == [heap |-> h, result |-> 0, value |-> v, error |-> ""]

Raise(h, error) == [heap |-> h, result |-> 0, value |-> NoDim, error |-> error]

\* The shape PythonTuple.__init__ gives an inhomogeneous tuple, taking the
\* shape of the first element whatever the ranks of the others
InhomogeneousShape_first_child(h, args, rank) ==
    IF rank = 1
    THEN <<LiteralIntegerDim(Len(args))>>
    ELSE <<LiteralIntegerDim(Len(args))>> \o h[args[1]].shape.dims

\* The shape PythonTuple.__init__ gives an inhomogeneous tuple of rank rank
InhomogeneousShape(h, args, rank) ==
    IF rank = 1
    THEN <<LiteralIntegerDim(Len(args))>>
    ELSE IF \E k \in 1..Len(args) : h[args[k]].rank # max_rank(h, args)
    THEN <<LiteralIntegerDim(Len(args))>> \o [k \in 1..(rank - 1) |-> UnknownDim]
    ELSE <<LiteralIntegerDim(Len(args))>> \o h[args[1]].shape.dims

\* PythonTuple.__init__(*args) in stage stage.  Reading the dtype of an
\* element that has none stored is an AttributeError.
PythonTuple(h, args, stage) ==
    IF stage = "syntactic"
    THEN New(h, UntypedNode("PythonTuple", args))
    ELSE IF Len(args) = 0
    THEN New(h, [EmptyAggregate("PythonTuple") EXCEPT !.has_is_homogeneous = TRUE])
    ELSE IF \E k \in 1..Len(args) : ~h[args[k]].typed
    THEN Raise(h, "AttributeError")
    ELSE LET inconsistent == ~ \A k \in 2..Len(args) :
                                  h[args[1]].shape = h[args[k]].shape
         IN  IF is_homogeneous(h, args)
             THEN New(h, [HomogeneousAggregate(h, "PythonTuple", args) EXCEPT
                             !.has_is_homogeneous = TRUE,
                             !.is_homogeneous = TRUE,
                             !.inconsistent_shape = inconsistent])
             ELSE LET rank  == max_rank(h, args) + 1
                      dtype == NativeInhomogeneousTuple(
                                   [k \in 1..Len(args) |-> h[args[k]].dtype])
                  IN  New(h, [TypedNode("PythonTuple", dtype, 0, rank,
                                        Shape(InhomogeneousShape(h, args, rank)),
                                        IF rank < 2 THEN "None" ELSE "C", args)
                                 EXCEPT !.has_is_homogeneous = TRUE,
                                        !.inconsistent_shape = inconsistent])

\* PythonList.__init__(*args) in stage stage; PythonList.is_homogeneous is
\* True whatever the stage
PythonList(h, args, stage) ==
    IF stage = "syntactic"
    THEN New(h, [UntypedNode("PythonList", args) EXCEPT
                    !.has_is_homogeneous = TRUE, !.is_homogeneous = TRUE])
    ELSE IF Len(args) = 0
    THEN New(h, [EmptyAggregate("PythonList") EXCEPT
                    !.has_is_homogeneous = TRUE, !.is_homogeneous = TRUE])
    ELSE IF \E k \in 1..Len(args) : ~h[args[k]].typed
    THEN Raise(h, "AttributeError")
    ELSE IF is_homogeneous(h, args)
    THEN New(h, [HomogeneousAggregate(h, "PythonList", args) EXCEPT
                    !.has_is_homogeneous = TRUE, !.is_homogeneous = TRUE])
    ELSE Raise(h, "TypeError")

\* An index handed to __getitem__: a LiteralInteger, PyccelUnarySub of a
\* LiteralInteger, a Variable, None, a Slice of three of these, or an int of
\* Python's
Index(cls, n) == [cls |-> cls, n |-> n, parts |-> <<>>]

Slice(start, stop, step) == [cls |-> "Slice", n |-> 0, parts |-> <<start, stop, step>>]

IndexNone == Index("None", 0)

\* Python's None or an int
PyNone == [none |-> TRUE, v |-> 0]

PyInt(v) == [none |-> FALSE, v |-> v]

\* is_int(a) of PythonTuple.__getitem__
is_int(a) == a.cls \in {"LiteralInteger", "PyccelUnarySub"}

\* to_int(a) of PythonTuple.__getitem__
to_int(a) ==
    IF a.cls = "None" THEN PyNone
    ELSE IF a.cls = "PyccelUnarySub" THEN PyInt(-a.n)
    ELSE PyInt(a.n)

\* Python's seq[i] for an int i, as a position from 1 (0: IndexError)
py_index(n, i) ==
    LET k == IF i < 0 THEN i + n ELSE i
    IN  IF k >= 0 /\ k < n THEN k + 1 ELSE 0

\* A bound of a slice brought into range, as slice.indices() does
py_clamp(n, b, step) ==
    LET k == IF b < 0 THEN b + n ELSE b
    IN  IF step > 0
        THEN (IF k < 0 THEN 0 ELSE IF k > n THEN n ELSE k)
        ELSE (IF k < 0 THEN -1 ELSE IF k >= n THEN n - 1 ELSE k)

RECURSIVE py_range(_, _, _)
py_range(i, stop, step) ==
    IF (step > 0 /\ i < stop) \/ (step < 0 /\ i > stop)
    THEN <<i>> \o py_range(i + step, stop, step)
    ELSE <<>>

\* Python's seq[start:stop:step] for a step other than 0
py_slice(seq, start, stop, step) ==
    LET n  == Len(seq)
        st == IF step.none THEN 1 ELSE step.v
        lo == IF start.none THEN (IF st > 0 THEN 0 ELSE n - 1)
              ELSE py_clamp(n, start.v, st)
        hi == IF stop.none THEN (IF st > 0 THEN n ELSE -1)
              ELSE py_clamp(n, stop.v, st)
        at == py_range(lo, hi, st)
    IN  [k \in 1..Len(at) |-> seq[at[k] + 1]]

\* IndexedElement(base, i) of pyccel.ast.variable: an element of base for an
\* integer index, a section of base for a slice
IndexedElement(base_id, base, i) ==
    IF i.cls = "Slice"
    THEN TypedNode("IndexedElement", base.dtype, base.precision, base.rank,
                   Shape(<<ExprDim>> \o Tail(base.shape.dims)), base.order,
                   <<base_id>>)
    ELSE [TypedNode("IndexedElement", base.dtype, base.precision, base.rank - 1,
                    IF base.rank = 1 THEN ShapeNone ELSE Shape(Tail(base.shape.dims)),
                    IF base.rank > 2 THEN base.order ELSE "None",
                    <<base_id>>)
            EXCEPT !.n = i.n]

\* PythonTuple.__getitem__ handing every index that is not a constant integer
\* to IndexedElement
PythonTuple_getitem_no_slice(h, self, i, stage) ==
    IF is_int(i)
    THEN LET k == py_index(Len(h[self].args), to_int(i).v)
         IN  IF k = 0 THEN Raise(h, "IndexError") ELSE Ok(h, h[self].args[k])
    ELSE IF ~h[self].typed
    THEN Raise(h, "AttributeError")
    ELSE IF h[self].is_homogeneous
    THEN New(h, IndexedElement(self, h[self], i))
    ELSE Raise(h, "NotImplementedError")

\* PythonTuple.__getitem__(self, i)
PythonTuple_getitem(h, self, i, stage) ==
    IF is_int(i)
    THEN LET k == py_index(Len(h[self].args), to_int(i).v)
         IN  IF k = 0 THEN Raise(h, "IndexError") ELSE Ok(h, h[self].args[k])
    ELSE IF i.cls = "Slice" /\ \A p \in 1..3 : is_int(i.parts[p]) \/ i.parts[p].cls = "None"
    THEN PythonTuple(h, py_slice(h[self].args, to_int(i.parts[1]), to_int(i.parts[2]),
                                 to_int(i.parts[3])), stage)
    ELSE IF ~h[self].typed
    THEN Raise(h, "AttributeError")
    ELSE IF h[self].is_homogeneous
    THEN New(h, IndexedElement(self, h[self], i))
    ELSE Raise(h, "NotImplementedError")

\* [arg[i] for i in range(n)]: the element accesses are built in order, each
\* by arg.__getitem__(i), which for a variable or an expression of
\* pyccel.ast.variable is IndexedElement(arg, i)
RECURSIVE element_accesses(_, _, _)
element_accesses(h, arg, n) ==
    IF n = 0 THEN [heap |-> h, ids |-> <<>>]
    ELSE LET before == element_accesses(h, arg, n - 1)
             one    == New(before.heap,
                           IndexedElement(arg, h[arg], Index("int", n - 1)))
         IN  [heap |-> one.heap, ids |-> Append(before.ids, one.result)]

\* PythonTupleFunction.__new__ unpacking by element accesses whatever the
\* first entry of the shape is
PythonTupleFunction_any_size(h, arg, stage) ==
    IF h[arg].cls = "PythonTuple"
    THEN Ok(h, arg)
    ELSE IF h[arg].cls \in {"PythonList", "InhomogeneousTupleVariable"}
    THEN PythonTuple(h, h[arg].args, stage)
    ELSE IF h[arg].shape.none
    THEN Raise(h, "TypeError")
    ELSE LET elems == element_accesses(h, arg, h[arg].shape.dims[1].n)
         IN  PythonTuple(elems.heap, elems.ids, stage)

\* PythonTupleFunction.__new__(cls, arg).  Subscripting the shape None of a
\* scalar is a TypeError of Python's.
PythonTupleFunction(h, arg, stage) ==
    IF h[arg].cls = "PythonTuple"
    THEN Ok(h, arg)
    ELSE IF h[arg].cls \in {"PythonList", "InhomogeneousTupleVariable"}
    THEN PythonTuple(h, h[arg].args, stage)
    ELSE IF h[arg].shape.none
    THEN Raise(h, "TypeError")
    ELSE IF h[arg].shape.dims[1].cls = "LiteralInteger"
    THEN LET elems == element_accesses(h, arg, h[arg].shape.dims[1].n)
         IN  PythonTuple(elems.heap, elems.ids, stage)
    ELSE Raise(h, "TypeError")

\* getattr(arg, 'is_homogeneous', False): False also when the attribute is
\* missing or reading it fails
getattr_is_homogeneous(o) == o.has_is_homogeneous /\ o.is_homogeneous

\* PythonLen.__new__ building a node for every operand that is not an
\* inhomogeneous aggregate
PythonLen_unless_inhomogeneous(h, arg) ==
    IF h[arg].has_is_homogeneous /\ ~h[arg].is_homogeneous
    THEN IF h[arg].shape.none THEN Raise(h, "TypeError")
         ELSE Value(h, h[arg].shape.dims[1])
    ELSE New(h, TypedNode("PythonLen", DType("NativeInteger"), -1, 0, ShapeNone,
                          "None", <<arg>>))

\* PythonLen.__new__ (and __init__ when an instance is returned)
PythonLen(h, arg) ==
    IF ~getattr_is_homogeneous(h[arg])
    THEN IF ~h[arg].typed THEN Raise(h, "AttributeError")
         ELSE IF h[arg].shape.none THEN Raise(h, "TypeError")
         ELSE Value(h, h[arg].shape.dims[1])
    ELSE New(h, TypedNode("PythonLen", DType("NativeInteger"), -1, 0, ShapeNone,
                          "None", <<arg>>))

(***************************************************************************)
(* Aggregates as a state machine.  Two operands made by an earlier stage    *)
(* and one aggregate over them are given, and one construction or call is   *)
(* made on the given objects.                                               *)
(***************************************************************************)
\* A variable or an expression.  Whether an object of pyccel.ast.variable
\* exposes is_homogeneous is decided there: both kinds of operand are given.
Operand(cls, dtype, precision, rank, shape, order, exposes) ==
    [TypedNode(cls, DType(dtype), precision, rank, shape, order, <<>>) EXCEPT
        !.has_is_homogeneous = exposes, !.is_homogeneous = exposes]

\* The literal 1, an integer of precision 8, a float, an integer array of
\* literal size 2, a homogeneous container of unknown size, a column-major
\* and a row-major integer array of rank 2, and the empty tuple
AggregateOperandList ==
    <<[Operand("LiteralInteger", "NativeInteger", -1, 0, ShapeNone, "None", FALSE)
          EXCEPT !.n = 1],
      Operand("Variable", "NativeInteger", 8, 0, ShapeNone, "None", FALSE),
      Operand("Variable", "NativeFloat", -1, 0, ShapeNone, "None", FALSE),
      Operand("Variable", "NativeInteger", -1, 1,
              Shape(<<LiteralIntegerDim(2)>>), "None", FALSE),
      Operand("Variable", "NativeInteger", -1, 1, Shape(<<ExprDim>>), "None", TRUE),
      Operand("Variable", "NativeInteger", -1, 2,
              Shape(<<LiteralIntegerDim(2), ExprDim>>), "F", FALSE),
      Operand("Variable", "NativeInteger", -1, 2,
              Shape(<<LiteralIntegerDim(2), ExprDim>>), "C", FALSE),
      [EmptyAggregate("PythonTuple") EXCEPT !.has_is_homogeneous = TRUE]>>

\* InhomogeneousTupleVariable of pyccel.ast.variable over the variables args:
\* typed as the inhomogeneous tuple of them, iterating over them
InhomogeneousTupleVariable(h, args) ==
    LET rank == max_rank(h, args) + 1
    IN  [TypedNode("InhomogeneousTupleVariable",
                   NativeInhomogeneousTuple([k \in 1..Len(args) |-> h[args[k]].dtype]),
                   0, rank, Shape(InhomogeneousShape(h, args, rank)),
                   IF rank < 2 THEN "None" ELSE "C", args)
           EXCEPT !.has_is_homogeneous = TRUE]

NoIndex == Index("", 0)

\* The lists of up to MaxElements of the objects 1..n
Lists(n) == UNION {[1..k -> 1..n] : k \in 0..MaxElements}

\* The aggregate given with the two operands: an inhomogeneous tuple variable
\* holding them, or a tuple or list literal built of them in the current stage
GivenAggregates(given, stage) ==
    {Append(given, InhomogeneousTupleVariable(given, <<1, 2>>))}
    \cup {PythonTuple(given, args, stage).heap : args \in Lists(2)}
    \cup {PythonList(given, args, stage).heap :
             args \in {l \in Lists(2) : PythonList(given, l, stage).error = ""}}

InitAggregate ==
    /\ pyccel_stage \in {"syntactic", "semantic"}
    /\ \E i, j \in 1..Len(AggregateOperandList) :
          /\ i <= j
          /\ heap \in GivenAggregates(<<AggregateOperandList[i],
                                        AggregateOperandList[j]>>, pyccel_stage)
    /\ last = [op |-> "", arg |-> <<>>, index |-> NoIndex, result |-> 0,
               value |-> NoDim, before |-> 3]
    /\ raised = ""
    /\ declared = {}
    /\ scope = {}
    /\ log = <<>>
    /\ arguments = <<>>
    /\ results = <<>>
    /\ func = None
    /\ ret = NoRet

\* The given objects
Given == SubSeq(heap, 1, 3)

\* The indices: constant integers, negated or not, a variable, and slices
ConstantIndices ==
    {Index("LiteralInteger", k) : k \in 0..MaxElements}
    \cup {Index("PyccelUnarySub", k) : k \in 1..MaxElements}

Slices ==
    {Slice(start, stop, step) :
        start \in {IndexNone, Index("LiteralInteger", 1)},
        stop \in {IndexNone, Index("PyccelUnarySub", 1), Index("Variable", 0)},
        step \in {IndexNone, Index("LiteralInteger", 2), Index("PyccelUnarySub", 1)}}

Indices == ConstantIndices \cup {Index("Variable", 0)} \cup Slices

Done(op, arg, index, out) ==
    /\ last.op = ""
    /\ heap' = out.heap
    /\ last' = [op |-> op, arg |-> arg, index |-> index, result |-> out.result,
                value |-> out.value, before |-> Len(Given)]
    /\ raised' = out.error
    /\ UNCHANGED builtinFrame

NewPythonTuple ==
    \E args \in Lists(Len(Given)) :
       Done("PythonTuple", args, NoIndex, PythonTuple(Given, args, pyccel_stage))

NewPythonList ==
    \E args \in Lists(Len(Given)) :
       Done("PythonList", args, NoIndex, PythonList(Given, args, pyccel_stage))

GetItem ==
    \E t \in 1..Len(Given), i \in Indices :
       /\ Given[t].cls = "PythonTuple"
       /\ Done("__getitem__", <<t>>, i, PythonTuple_getitem(Given, t, i, pyccel_stage))

CallPythonTupleFunction ==
    \E x \in 1..Len(Given) :
       Done("PythonTupleFunction", <<x>>, NoIndex,
            PythonTupleFunction(Given, x, pyccel_stage))

CallPythonLen ==
    \E x \in 1..Len(Given) :
       Done("PythonLen", <<x>>, NoIndex, PythonLen(Given, x))

NextAggregate ==
    \/ NewPythonTuple
    \/ NewPythonList
    \/ GetItem
    \/ CallPythonTupleFunction
    \/ CallPythonLen

SpecAggregate == InitAggregate /\ [][NextAggregate]_vars

(***************************************************************************)
(* Properties of the aggregates                                             *)
(***************************************************************************)
\* The elements of the literal the last call was to build
Elements == [k \in 1..Len(last.arg) |-> heap[last.arg[k]]]

\* A literal of at least one element was to be built in the typed stage
TypedLiteral(cls) ==
    /\ last.op = cls
    /\ pyccel_stage # "syntactic"
    /\ Len(last.arg) >= 1

\* The elements agree pairwise on kind, precision, rank and layout order
PairwiseIdentical ==
    LET e == Elements
    IN  \A k, l \in 1..Len(e) :
           /\ e[k].dtype = e[l].dtype
           /\ e[k].precision = e[l].precision
           /\ e[k].rank = e[l].rank
           /\ e[k].order = e[l].order

\* The elements agree pairwise on kind, rank and layout order, and on the
\* precision that -1 stands for
PairwiseAlike ==
    LET e == Elements
    IN  \A k, l \in 1..Len(e) :
           /\ e[k].dtype = e[l].dtype
           /\ get_final_precision(e[k]) = get_final_precision(e[l])
           /\ e[k].rank = e[l].rank
           /\ e[k].order = e[l].order

SomeGeneric == \E k \in 1..Len(last.arg) : heap[last.arg[k]].dtype = NativeGeneric

\* The last call returned a new object of class cls over the elements
BuiltLiteral(cls) ==
    /\ raised = ""
    /\ NewObjects = {last.result}
    /\ heap[last.result].cls = cls
    /\ heap[last.result].args = last.arg

\* C15 as stated: in the typed stage a non-empty list literal fails with a
\* type error exactly when its elements are not pairwise identical in kind,
\* precision, rank and order.
C15_AsClaimed ==
    TypedLiteral("PythonList") =>
        /\ raised = "TypeError" <=> ~PairwiseIdentical
        /\ raised = "" <=> PairwiseIdentical

\* C15, amended: in the typed stage a non-empty list literal fails with a
\* type error exactly when an element is of the generic kind or the elements
\* are not pairwise alike in kind, final precision (-1 read as the default of
\* the kind), rank and order; in every other case a PythonList over the
\* elements is built.
C15_ListHomogeneity ==
    TypedLiteral("PythonList") =>
        IF SomeGeneric \/ ~PairwiseAlike
        THEN /\ raised = "TypeError"
             /\ last.result = 0
             /\ NewObjects = {}
        ELSE BuiltLiteral("PythonList")

\* A list of two empty tuples is refused
C15_Witness ==
    /\ TypedLiteral("PythonList")
    /\ Len(last.arg) = 2
    /\ \A k \in 1..2 : /\ heap[last.arg[k]].cls = "PythonTuple"
                       /\ heap[last.arg[k]].args = <<>>
    /\ PairwiseIdentical
    /\ raised = "TypeError"

\* The largest rank among the elements
MaxChildRank ==
    CHOOSE r \in {Elements[k].rank : k \in 1..Len(Elements)} :
        \A k \in 1..Len(Elements) : Elements[k].rank <= r

\* n unknown entries
Unknowns(n) == [k \in 1..n |-> UnknownDim]

\* The last call built an inhomogeneous tuple typed as C16 says
InhomogeneousAsClaimed ==
    LET t == heap[last.result]
        n == LiteralIntegerDim(Len(last.arg))
    IN  /\ BuiltLiteral("PythonTuple")
        /\ t.has_is_homogeneous
        /\ ~t.is_homogeneous
        /\ t.dtype.name = "NativeInhomogeneousTuple"
        /\ t.dtype.elems = [k \in 1..Len(Elements) |-> Elements[k].dtype]
        /\ t.rank = MaxChildRank + 1
        /\ t.shape = IF t.rank = 1
                     THEN Shape(<<n>>)
                     ELSE IF \E k \in 1..Len(Elements) : Elements[k].rank # MaxChildRank
                     THEN Shape(<<n>> \o Unknowns(t.rank - 1))
                     ELSE Shape(<<n>> \o Elements[1].shape.dims)

\* C16 as stated: in the typed stage a tuple literal whose elements differ in
\* kind, precision, rank or order is built inhomogeneous, typed as the
\* composite of the kinds, of rank max child rank + 1 and of the shape given.
C16_AsClaimed ==
    (TypedLiteral("PythonTuple") /\ ~PairwiseIdentical) => InhomogeneousAsClaimed

\* C16, amended: in the typed stage a tuple literal is always built; it is
\* inhomogeneous exactly when an element is of the generic kind or the
\* elements differ in kind, final precision (-1 read as the default of the
\* kind), rank or order, and then it is typed as the composite of the kinds,
\* of rank max child rank + 1, and of shape (n,) for rank 1, (n,) followed by
\* rank-1 unknown entries when a child's rank is not the largest, and
\* (n,) + the shape of the first child otherwise.
C16_TupleInhomogeneity ==
    TypedLiteral("PythonTuple") =>
        /\ BuiltLiteral("PythonTuple")
        /\ heap[last.result].has_is_homogeneous
        /\ ~heap[last.result].is_homogeneous <=> (SomeGeneric \/ ~PairwiseAlike)
        /\ ~heap[last.result].is_homogeneous => InhomogeneousAsClaimed

\* A scalar and an array give a tuple of rank 2 with an unknown second size
C16_Witness ==
    /\ TypedLiteral("PythonTuple")
    /\ Len(last.arg) = 2
    /\ Elements[1].rank = 0
    /\ Elements[2].rank = 1
    /\ ~heap[last.result].is_homogeneous
    /\ heap[last.result].rank = 2
    /\ heap[last.result].shape = Shape(<<LiteralIntegerDim(2), UnknownDim>>)

\* C17: a homogeneous tuple or list literal of n >= 1 elements has the kind
\* and the precision of its first element, the shape (n,) + the shape of the
\* first element, the rank len(shape) = max child rank + 1, and the order 'C'
\* exactly when that rank is at least 2, None otherwise.
C17_HomogeneousShape ==
    \A cls \in {"PythonTuple", "PythonList"} :
       (/\ TypedLiteral(cls)
        /\ raised = ""
        /\ heap[last.result].is_homogeneous) =>
           LET t == heap[last.result]
               S == IF Elements[1].rank = 0 THEN <<>> ELSE Elements[1].shape.dims
           IN  /\ BuiltLiteral(cls)
               /\ t.dtype = Elements[1].dtype
               /\ t.precision = Elements[1].precision
               /\ t.shape = Shape(<<LiteralIntegerDim(Len(last.arg))>> \o S)
               /\ t.rank = Len(S) + 1
               /\ t.rank = MaxChildRank + 1
               /\ t.rank = Len(t.shape.dims)
               /\ t.order = "C" <=> t.rank >= 2
               /\ t.order = "None" <=> t.rank < 2

\* A list of two arrays of shape (2,) has shape (2, 2), rank 2 and order 'C'
C17_Witness ==
    /\ TypedLiteral("PythonList")
    /\ raised = ""
    /\ Len(last.arg) = 2
    /\ Elements[1].shape = Shape(<<LiteralIntegerDim(2)>>)
    /\ Elements[2].shape = Shape(<<LiteralIntegerDim(2)>>)
    /\ heap[last.result].shape = Shape(<<LiteralIntegerDim(2), LiteralIntegerDim(2)>>)
    /\ heap[last.result].rank = 2
    /\ heap[last.result].order = "C"

\* The index of the last call is a compile-time constant
ConstantIndex(i) == i.cls \in {"LiteralInteger", "PyccelUnarySub"}

ConstantSlice(i) ==
    /\ i.cls = "Slice"
    /\ \A p \in 1..3 : ConstantIndex(i.parts[p]) \/ i.parts[p].cls = "None"

\* The 0-based positions a slice of constant bounds selects among n elements,
\* in the order of selection: start is absent or a literal, stop is absent
\* or a negated literal, step is absent, a literal or a negated literal
SelectedPositions(n, i) ==
    LET Min(a, b) == IF a < b THEN a ELSE b
        Max(a, b) == IF a > b THEN a ELSE b
        start == i.parts[1]
        stop  == i.parts[2]
        step  == IF i.parts[3].cls = "None" THEN 1
                 ELSE IF i.parts[3].cls = "PyccelUnarySub" THEN -i.parts[3].n
                 ELSE i.parts[3].n
        first == IF step > 0
                 THEN (IF start.cls = "None" THEN 0 ELSE Min(start.n, n))
                 ELSE (IF start.cls = "None" THEN n - 1 ELSE Min(start.n, n - 1))
        bound == IF stop.cls = "None"
                 THEN (IF step > 0 THEN n ELSE -1)
                 ELSE Max(n - stop.n, IF step > 0 THEN 0 ELSE -1)
        among == {p \in 0..(n - 1) :
                     IF step > 0
                     THEN p >= first /\ p < bound /\ (p - first) % step = 0
                     ELSE p <= first /\ p > bound /\ (first - p) % (-step) = 0}
    IN  [k \in 1..Cardinality(among) |-> first + (k - 1) * step]

\* C18: indexing a PythonTuple of n elements with a constant integer k in
\* range, or the negation of one (selecting element n-k), returns the stored
\* element itself and builds nothing; with a slice of constant or absent
\* bounds it returns a tuple of exactly the selected elements in order; with
\* any other index it returns an IndexedElement over the tuple if the tuple is
\* homogeneous and raises an error if it is inhomogeneous.
C18_TupleIndexing ==
    last.op = "__getitem__" =>
        LET self == last.arg[1]
            t    == heap[self]
            n    == Len(t.args)
            i    == last.index
        IN  IF ConstantIndex(i)
            THEN IF i.cls = "LiteralInteger" /\ i.n < n
                 THEN /\ raised = ""
                      /\ last.result = t.args[i.n + 1]
                      /\ NewObjects = {}
                 ELSE IF i.cls = "PyccelUnarySub" /\ i.n \in 1..n
                 THEN /\ raised = ""
                      /\ last.result = t.args[n - i.n + 1]
                      /\ NewObjects = {}
                 ELSE /\ raised = "IndexError"
                      /\ NewObjects = {}
            ELSE IF ConstantSlice(i)
            THEN LET at == SelectedPositions(n, i)
                 IN  /\ raised = ""
                     /\ NewObjects = {last.result}
                     /\ heap[last.result].cls = "PythonTuple"
                     /\ heap[last.result].args = [k \in 1..Len(at) |-> t.args[at[k] + 1]]
            ELSE IF ~t.typed
            THEN raised # "" /\ NewObjects = {}
            ELSE IF t.is_homogeneous
            THEN /\ raised = ""
                 /\ NewObjects = {last.result}
                 /\ heap[last.result].cls = "IndexedElement"
                 /\ heap[last.result].args = <<self>>
            ELSE /\ raised = "NotImplementedError"
                 /\ last.result = 0
                 /\ NewObjects = {}

\* t[-1] of a tuple of two elements is its second element, and nothing is built
C18_Witness ==
    /\ last.op = "__getitem__"
    /\ last.index = Index("PyccelUnarySub", 1)
    /\ Len(heap[last.arg[1]].args) = 2
    /\ heap[last.arg[1]].args[1] # heap[last.arg[1]].args[2]
    /\ last.result = heap[last.arg[1]].args[2]
    /\ Len(heap) = last.before

\* C19: PythonTupleFunction returns a PythonTuple argument itself; for a
\* PythonList or an inhomogeneous tuple variable a new PythonTuple of the
\* argument's elements in order; else, when the first entry of the argument's
\* shape is a literal integer n, a PythonTuple of the n element accesses
\* arg[0]..arg[n-1] in order; in every other case it fails with a type error
\* and returns nothing.
C19_TupleFunction ==
    last.op = "PythonTupleFunction" =>
        LET arg == last.arg[1]
            x   == heap[arg]
        IN  IF x.cls = "PythonTuple"
            THEN /\ raised = ""
                 /\ last.result = arg
                 /\ NewObjects = {}
            ELSE IF x.cls \in {"PythonList", "InhomogeneousTupleVariable"}
            THEN /\ raised = ""
                 /\ NewObjects = {last.result}
                 /\ heap[last.result].cls = "PythonTuple"
                 /\ heap[last.result].args = x.args
            ELSE IF ~x.shape.none /\ x.shape.dims[1].cls = "LiteralInteger"
            THEN LET r == heap[last.result]
                     n == x.shape.dims[1].n
                 IN  /\ raised = ""
                     /\ r.cls = "PythonTuple"
                     /\ Len(r.args) = n
                     /\ NewObjects = {last.result} \cup {r.args[k] : k \in 1..n}
                     /\ \A k \in 1..n :
                           /\ heap[r.args[k]].cls = "IndexedElement"
                           /\ heap[r.args[k]].args = <<arg>>
                           /\ heap[r.args[k]].n = k - 1
            ELSE /\ raised = "TypeError"
                 /\ last.result = 0
                 /\ NewObjects = {}

\* tuple() of an array of literal size 2 is the tuple (a[0], a[1])
C19_Witness ==
    /\ last.op = "PythonTupleFunction"
    /\ heap[last.arg[1]].cls = "Variable"
    /\ heap[last.arg[1]].shape = Shape(<<LiteralIntegerDim(2)>>)
    /\ heap[last.result].cls = "PythonTuple"
    /\ Len(heap[last.result].args) = 2
    /\ heap[heap[last.result].args[1]].cls = "IndexedElement"
    /\ heap[heap[last.result].args[2]].n = 1

\* The operand is an inhomogeneous aggregate
InhomogeneousAggregate(x) ==
    /\ x.cls \in {"PythonTuple", "InhomogeneousTupleVariable"}
    /\ x.typed
    /\ ~x.is_homogeneous

\* The last call returned the first entry of the shape of x and built nothing
ReturnedFirstSize(x) ==
    /\ raised = ""
    /\ ~x.shape.none
    /\ last.value = x.shape.dims[1]
    /\ last.result = 0
    /\ NewObjects = {}

\* The last call built a PythonLen node over its operand
BuiltLenNode ==
    /\ raised = ""
    /\ NewObjects = {last.result}
    /\ heap[last.result].cls = "PythonLen"
    /\ heap[last.result].dtype = DType("NativeInteger")
    /\ heap[last.result].rank = 0
    /\ heap[last.result].args = last.arg

C30_AsClaimed ==
    (/\ last.op = "PythonLen"
     /\ pyccel_stage # "syntactic"
     /\ heap[last.arg[1]].cls = "PythonTuple") =>
        LET t == heap[last.arg[1]]
        IN  /\ raised = ""
            /\ IF t.is_homogeneous
               THEN BuiltLenNode
               ELSE /\ last.value = LiteralIntegerDim(Len(t.args))
                    /\ last.result = 0
                    /\ NewObjects = {}

(***************************************************************************)
(* range(), zip(), enumerate(), max() and min()                             *)
(***************************************************************************)
MaxArgs == 4

\* str(n) for an integer
str_int(n) == IF n < 0 THEN <<"-">> \o Str(-n) ELSE Str(n)

\* sep.join(parts)
RECURSIVE join(_, _)
join(sep, parts) ==
    IF parts = <<>> THEN <<>>
    ELSE IF Len(parts) = 1 THEN parts[1]
    ELSE parts[1] \o sep \o join(sep, Tail(parts))

\* A name of the syntactic stage (pyccel.ast.internals.PyccelSymbol, a str):
\* no TypedAstNode
PyccelSymbol == UntypedNode("PyccelSymbol", <<>>)

\* isinstance(o, TypedAstNode): of the classes at hand, names, ranges and
\* enumerations are none
isinstance_TypedAstNode(o) ==
    o.cls \notin {"PyccelSymbol", "PythonRange", "PythonEnumerate"}

\* What a constructor that may fail with a message leaves
WithMessage(out, message) ==
    [heap |-> out.heap, result |-> out.result, value |-> out.value,
     error |-> out.error, message |-> message]

\* ', '.join('{xi.dtype}({xi.precision})' for xi in x): the text between the
\* quotes is no f-string, it is joined as it stands
PythonMax_types(h, x) ==
    join(<<", ">>, [k \in 1..Len(h[x].args) |->
                       <<"{xi.dtype}", "(", "{xi.precision}", ")">>])

\* ', '.join(f'{xi.dtype}({xi.precision})' for xi in x)
PythonMin_types(h, x) ==
    join(<<", ">>, [k \in 1..Len(h[x].args) |->
                       <<h[h[x].args[k]].dtype.name, "(">>
                       \o str_int(h[h[x].args[k]].precision) \o <<")">>])

\* PythonMax.__init__(*x): x is the sequence of the arguments passed.  A tuple
\* or list built in the syntactic stage has no is_homogeneous or dtype to read.
PythonMax(h, x, stage) ==
    LET packed == IF Len(x) = 1 THEN Ok(h, x[1]) ELSE PythonTuple(h, x, stage)
        t      == packed.result
        hp     == packed.heap
    IN  IF Len(x) = 1 /\ h[x[1]].cls \notin {"PythonTuple", "PythonList"}
        THEN WithMessage(Raise(h, "TypeError"), <<>>)
        ELSE IF packed.error # ""
        THEN WithMessage(packed, <<>>)
        ELSE IF ~hp[t].typed
        THEN WithMessage(Raise(hp, "AttributeError"), <<>>)
        ELSE IF ~hp[t].is_homogeneous
        THEN WithMessage(Raise(hp, "PyccelError"), PythonMax_types(hp, t))
        ELSE WithMessage(New(hp, TypedNode("PythonMax", hp[t].dtype, hp[t].precision,
                                           0, ShapeNone, "None", <<t>>)), <<>>)

\* PythonMin.__init__(*x)
PythonMin(h, x, stage) ==
    LET packed == IF Len(x) = 1 THEN Ok(h, x[1]) ELSE PythonTuple(h, x, stage)
        t      == packed.result
        hp     == packed.heap
    IN  IF Len(x) = 1 /\ h[x[1]].cls \notin {"PythonTuple", "PythonList"}
        THEN WithMessage(Raise(h, "TypeError"), <<>>)
        ELSE IF packed.error # ""
        THEN WithMessage(packed, <<>>)
        ELSE IF ~hp[t].typed
        THEN WithMessage(Raise(hp, "AttributeError"), <<>>)
        ELSE IF ~hp[t].is_homogeneous
        THEN WithMessage(Raise(hp, "PyccelError"), PythonMin_types(hp, t))
        ELSE WithMessage(New(hp, TypedNode("PythonMin", hp[t].dtype, hp[t].precision,
                                           0, ShapeNone, "None", <<t>>)), <<>>)

\* LiteralInteger(value) as a typed node of this layer
LiteralInteger_node(value) ==
    [TypedNode("LiteralInteger", DType("NativeInteger"), -1, 0, ShapeNone, "None", <<>>)
        EXCEPT !.n = value]

\* A node that stores its operands and no type of its own
PlainNode(cls, args, fields) == fields @@ UntypedNode(cls, args)

\* PythonRange.__init__(*args), the bounds taken whatever the number of
\* arguments: missing ones default, surplus ones are dropped
PythonRange_any_arity(h, args) ==
    LET n  == Len(args)
        h0 == Append(h, LiteralInteger_node(0))
        h1 == Append(h0, LiteralInteger_node(1))
        h2 == Append(h, LiteralInteger_node(1))
    IN  IF n <= 1
        THEN New(h1, PlainNode("PythonRange", args,
                               [start |-> Len(h0),
                                stop  |-> IF n = 1 THEN args[1] ELSE Len(h0),
                                step  |-> Len(h1)]))
        ELSE IF n = 2
        THEN New(h2, PlainNode("PythonRange", args,
                               [start |-> args[1], stop |-> args[2], step |-> Len(h2)]))
        ELSE New(h, PlainNode("PythonRange", args,
                              [start |-> args[1], stop |-> args[2], step |-> args[3]]))

\* PythonRange.__init__(*args)
PythonRange(h, args) ==
    LET n  == Len(args)
        h0 == Append(h, LiteralInteger_node(0))
        h1 == Append(h0, LiteralInteger_node(1))
        h2 == Append(h, LiteralInteger_node(1))
    IN  IF n = 1
        THEN New(h1, PlainNode("PythonRange", args,
                               [start |-> Len(h0), stop |-> args[1], step |-> Len(h1)]))
        ELSE IF n = 2
        THEN New(h2, PlainNode("PythonRange", args,
                               [start |-> args[1], stop |-> args[2], step |-> Len(h2)]))
        ELSE IF n = 3
        THEN New(h, PlainNode("PythonRange", args,
                              [start |-> args[1], stop |-> args[2], step |-> args[3]]))
        ELSE Raise(h, "ValueError")

\* The length a PythonZip stores: None, an int of Python's, or an entry of a
\* shape
LengthNone == [cls |-> "NoneType", n |-> 0]

PyLength(k) == [cls |-> "int", n |-> k]

\* [a.shape[0].python_value for a in args if isinstance(a.shape[0], LiteralInteger)]
RECURSIVE zip_lengths(_, _)
zip_lengths(h, args) ==
    IF args = <<>> THEN <<>>
    ELSE (IF h[args[1]].shape.dims[1].cls = "LiteralInteger"
          THEN <<h[args[1]].shape.dims[1].n>> ELSE <<>>)
         \o zip_lengths(h, Tail(args))

\* The positions of the arguments whose a.shape[0] cannot be read
zip_unsized(h, args) ==
    {k \in 1..Len(args) : ~h[args[k]].typed \/ h[args[k]].shape.none}

\* The first of a non-empty set of positions
first(positions) == CHOOSE k \in positions : \A l \in positions : k <= l

\* min(lengths) of a non-empty list of ints
py_min(lengths) ==
    CHOOSE m \in {lengths[k] : k \in 1..Len(lengths)} :
        \A k \in 1..Len(lengths) : m <= lengths[k]

\* PythonZip.__init__ taking the largest of the known lengths
PythonZip_longest(h, args, stage) ==
    IF Len(args) < 2
    THEN Raise(h, "ValueError")
    ELSE IF stage = "syntactic"
    THEN New(h, PlainNode("PythonZip", args, [length |-> LengthNone]))
    ELSE IF zip_unsized(h, args) # {}
    THEN Raise(h, IF h[args[first(zip_unsized(h, args))]].typed
                  THEN "TypeError" ELSE "AttributeError")
    ELSE LET lengths == zip_lengths(h, args)
         IN  IF lengths # <<>>
             THEN New(h, PlainNode("PythonZip", args,
                                   [length |-> PyLength(
                                       CHOOSE m \in {lengths[k] : k \in 1..Len(lengths)} :
                                          \A k \in 1..Len(lengths) : m >= lengths[k])]))
             ELSE New(h, PlainNode("PythonZip", args,
                                   [length |-> h[args[1]].shape.dims[1]]))

\* PythonZip.__init__(*args).  *args is always a tuple, so the first test
\* never fails.  The arguments are read in order: reading the shape of an
\* object that has none stored is an AttributeError, subscripting the shape
\* None of a scalar a TypeError.
PythonZip(h, args, stage) ==
    IF Len(args) < 2
    THEN Raise(h, "ValueError")
    ELSE IF stage = "syntactic"
    THEN New(h, PlainNode("PythonZip", args, [length |-> LengthNone]))
    ELSE IF zip_unsized(h, args) # {}
    THEN Raise(h, IF h[args[first(zip_unsized(h, args))]].typed
                  THEN "TypeError" ELSE "AttributeError")
    ELSE LET lengths == zip_lengths(h, args)
         IN  IF lengths # <<>>
             THEN New(h, PlainNode("PythonZip", args,
                                   [length |-> PyLength(py_min(lengths))]))
             ELSE New(h, PlainNode("PythonZip", args,
                                   [length |-> h[args[1]].shape.dims[1]]))

\* PythonEnumerate.__init__ without the test of the argument
PythonEnumerate_unchecked(h, arg, stage) ==
    LET h0 == Append(h, LiteralInteger_node(0))
    IN  New(h0, PlainNode("PythonEnumerate", <<arg>>,
                          [element |-> arg, start |-> Len(h0)]))

\* PythonEnumerate.__init__(arg), start left at its default None
PythonEnumerate(h, arg, stage) ==
    IF stage # "syntactic" /\ ~isinstance_TypedAstNode(h[arg])
    THEN Raise(h, "TypeError")
    ELSE LET h0 == Append(h, LiteralInteger_node(0))
         IN  New(h0, PlainNode("PythonEnumerate", <<arg>>,
                               [element |-> arg, start |-> Len(h0)]))

(***************************************************************************)
(* The iteration helpers as a state machine.  Two operands made by an       *)
(* earlier stage and one tuple or list over them are given, and one         *)
(* construction is made on the given objects.                               *)
(***************************************************************************)
\* The literal 1, an integer of precision 8, a float, integer arrays of the
\* literal sizes 2 and 3 and of unknown size, and a name
IterationOperandList ==
    <<LiteralInteger_node(1),
      Operand("Variable", "NativeInteger", 8, 0, ShapeNone, "None", FALSE),
      Operand("Variable", "NativeFloat", -1, 0, ShapeNone, "None", FALSE),
      Operand("Variable", "NativeInteger", -1, 1,
              Shape(<<LiteralIntegerDim(2)>>), "None", FALSE),
      Operand("Variable", "NativeInteger", -1, 1,
              Shape(<<LiteralIntegerDim(3)>>), "None", FALSE),
      Operand("Variable", "NativeInteger", -1, 1, Shape(<<ExprDim>>), "None", FALSE),
      PyccelSymbol>>

\* The tuple or list literal given with the two operands, built of them in
\* the current stage
GivenLiterals(given, stage) ==
    {PythonTuple(given, args, stage).heap :
        args \in {l \in Lists(2) : PythonTuple(given, l, stage).error = ""}}
    \cup {PythonList(given, args, stage).heap :
             args \in {l \in Lists(2) : PythonList(given, l, stage).error = ""}}

InitIteration ==
    /\ pyccel_stage \in {"syntactic", "semantic", "codegen"}
    /\ \E i, j \in 1..Len(IterationOperandList) :
          /\ i <= j
          /\ heap \in GivenLiterals(<<IterationOperandList[i],
                                      IterationOperandList[j]>>, pyccel_stage)
    /\ last = [op |-> "", arg |-> <<>>, index |-> NoIndex, result |-> 0,
               value |-> NoDim, before |-> 3]
    /\ raised = ""
    /\ declared = {}
    /\ scope = {}
    /\ log = <<>>
    /\ arguments = <<>>
    /\ results = <<>>
    /\ func = None
    /\ ret = NoRet

\* The argument lists of range(): up to MaxArgs of the two operands
RangeArgs == UNION {[1..k -> 1..2] : k \in 0..MaxArgs}

\* A construction that may fail with a message
Made(op, arg, out, message) ==
    /\ last.op = ""
    /\ heap' = out.heap
    /\ last' = [op |-> op, arg |-> arg, index |-> NoIndex, result |-> out.result,
                value |-> out.value, before |-> Len(Given), message |-> message]
    /\ raised' = out.error
    /\ UNCHANGED builtinFrame

NewPythonMax ==
    \E x \in Lists(Len(Given)) :
       LET out == PythonMax(Given, x, pyccel_stage)
       IN  Made("PythonMax", x, out, out.message)

NewPythonMin ==
    \E x \in Lists(Len(Given)) :
       LET out == PythonMin(Given, x, pyccel_stage)
       IN  Made("PythonMin", x, out, out.message)

NewPythonRange ==
    \E args \in RangeArgs : Made("PythonRange", args, PythonRange(Given, args), <<>>)

NewPythonZip ==
    \E args \in Lists(Len(Given)) :
       Made("PythonZip", args, PythonZip(Given, args, pyccel_stage), <<>>)

NewPythonEnumerate ==
    \E x \in 1..Len(Given) :
       Made("PythonEnumerate", <<x>>, PythonEnumerate(Given, x, pyccel_stage), <<>>)

NextIteration ==
    \/ NewPythonTuple
    \/ NewPythonList
    \/ NewPythonMax
    \/ NewPythonMin
    \/ NewPythonRange
    \/ NewPythonZip
    \/ NewPythonEnumerate

SpecIteration == InitIteration /\ [][NextIteration]_vars

(***************************************************************************)
(* Properties of the iteration helpers                                      *)
(***************************************************************************)
\* The last call was max() or min() of one tuple or list, or of two or more
\* scalar expressions, in the typed stage
MaxMinCalled(op) ==
    /\ last.op = op
    /\ pyccel_stage # "syntactic"
    /\ \/ /\ Len(last.arg) = 1
          /\ heap[last.arg[1]].cls \in {"PythonTuple", "PythonList"}
       \/ /\ Len(last.arg) >= 2
          /\ \A k \in 1..Len(last.arg) :
                heap[last.arg[k]].typed /\ heap[last.arg[k]].rank = 0

\* The aggregate max() or min() works on: the one passed, or the tuple the
\* arguments were packed into
Packed == IF Len(last.arg) = 1 THEN last.arg[1] ELSE last.before + 1

\* The text holds the kind and the precision of the object e as 'kind(precision)'
Naming(text, e) ==
    LET part == <<e.dtype.name, "(">> \o str_int(e.precision) \o <<")">>
    IN  \E k \in 1..Len(text) :
           /\ k + Len(part) - 1 <= Len(text)
           /\ SubSeq(text, k, k + Len(part) - 1) = part

\* max() or min() did what C21 says of it
MaxMinAsClaimed(op) ==
    MaxMinCalled(op) =>
        LET x == heap[Packed]
        IN  IF ~x.is_homogeneous
            THEN /\ raised = "PyccelError"
                 /\ last.result = 0
                 /\ \A k \in 1..Len(x.args) : Naming(last.message, heap[x.args[k]])
            ELSE /\ raised = ""
                 /\ heap[last.result].cls = op
                 /\ heap[last.result].args = <<Packed>>
                 /\ heap[last.result].rank = 0
                 /\ heap[last.result].dtype = x.dtype
                 /\ heap[last.result].precision = x.precision
                 /\ \A k \in 1..Len(x.args) :
                       /\ heap[last.result].dtype = heap[x.args[k]].dtype
                       /\ get_final_precision(heap[last.result])
                              = get_final_precision(heap[x.args[k]])

\* C21 as stated: PythonMax and PythonMin alike, given one tuple or list or
\* two or more scalars, fail on an inhomogeneous aggregate with a PyccelError
\* whose message names the kind and precision of each argument, and on a
\* homogeneous one build a node of the common kind and precision and rank 0.
C21_AsClaimed == MaxMinAsClaimed("PythonMax") /\ MaxMinAsClaimed("PythonMin")

\* The sources of the last zip() whose first size is a literal integer
KnownSources ==
    {k \in 1..Len(last.arg) : heap[last.arg[k]].shape.dims[1].cls = "LiteralInteger"}

\* Every source of the last zip() has a shape to read a first size from
SizedSources ==
    \A k \in 1..Len(last.arg) :
       heap[last.arg[k]].typed /\ ~heap[last.arg[k]].shape.none

\* C22: PythonZip of fewer than 2 sources fails and builds nothing.  In the
\* typed stage a PythonZip of 2 or more sources that have a shape is built
\* over them, and its length is the smallest first size among exactly the
\* sources whose first size is a literal integer, or, when no source has
\* one, the first size of the first source.
C22_ZipLength ==
    last.op = "PythonZip" =>
        /\ Len(last.arg) < 2 =>
              /\ raised = "ValueError"
              /\ last.result = 0
              /\ NewObjects = {}
        /\ (Len(last.arg) >= 2 /\ pyccel_stage # "syntactic" /\ SizedSources) =>
              /\ raised = ""
              /\ NewObjects = {last.result}
              /\ heap[last.result].cls = "PythonZip"
              /\ heap[last.result].args = last.arg
              /\ IF KnownSources # {}
                 THEN /\ heap[last.result].length.cls = "int"
                      /\ \E k \in KnownSources :
                            heap[last.result].length.n = heap[last.arg[k]].shape.dims[1].n
                      /\ \A k \in KnownSources :
                            heap[last.result].length.n <= heap[last.arg[k]].shape.dims[1].n
                 ELSE heap[last.result].length = heap[last.arg[1]].shape.dims[1]

\* zip of sources of the known sizes 3 and 2 has length 2
C22_Witness ==
    /\ last.op = "PythonZip"
    /\ pyccel_stage = "semantic"
    /\ Len(last.arg) = 2
    /\ SizedSources
    /\ heap[last.arg[1]].shape.dims[1] = LiteralIntegerDim(3)
    /\ heap[last.arg[2]].shape.dims[1] = LiteralIntegerDim(2)
    /\ heap[last.result].length = PyLength(2)

\* The object is a new literal integer of the value v
NewLiteral(id, v) ==
    /\ id \in NewObjects
    /\ heap[id].cls = "LiteralInteger"
    /\ heap[id].n = v

\* C23: PythonRange of 1 argument has start literal 0, stop the argument and
\* step literal 1; of 2 arguments start and stop the arguments and step
\* literal 1; of 3 arguments start, stop and step the arguments; of any other
\* number of arguments, 0 and more than 3 included, the construction fails
\* and no node is built.
C23_RangeArity ==
    last.op = "PythonRange" =>
        LET n == Len(last.arg)
            r == heap[last.result]
        IN  IF n \in {1, 2, 3}
            THEN /\ raised = ""
                 /\ last.result \in NewObjects
                 /\ r.cls = "PythonRange"
                 /\ IF n = 1 THEN NewLiteral(r.start, 0) ELSE r.start = last.arg[1]
                 /\ r.stop = IF n = 1 THEN last.arg[1] ELSE last.arg[2]
                 /\ IF n = 3 THEN r.step = last.arg[3] ELSE NewLiteral(r.step, 1)
            ELSE /\ raised = "ValueError"
                 /\ last.result = 0
                 /\ NewObjects = {}

\* range() of four arguments fails
C23_Witness ==
    /\ last.op = "PythonRange"
    /\ Len(last.arg) = 4
    /\ raised = "ValueError"
    /\ Len(heap) = last.before

\* The last call built a new node of class cls over its arguments
BuiltNode(cls) ==
    /\ raised = ""
    /\ NewObjects # {}
    /\ last.result \in NewObjects
    /\ heap[last.result].cls = cls
    /\ heap[last.result].args = last.arg

\* Every element handed to the last call carries a type
TypedElements == \A k \in 1..Len(last.arg) : heap[last.arg[k]].typed

\* C28: while the stage is 'syntactic' PythonTuple and PythonList are built
\* over any elements without a homogeneity check and without failing,
\* PythonZip stores the length None and PythonEnumerate accepts an argument
\* that is no typed node; in any other stage the same calls make the
\* homogeneity check (the tuple records its outcome, the list fails on a
\* negative one), PythonZip stores a computed length and PythonEnumerate
\* fails with a type error on an argument that is no typed node.
C28_StageGate ==
    IF pyccel_stage = "syntactic"
    THEN /\ last.op \in {"PythonTuple", "PythonList"} =>
               /\ BuiltNode(last.op)
               /\ ~heap[last.result].typed
         /\ (last.op = "PythonZip" /\ Len(last.arg) >= 2) =>
               /\ BuiltNode("PythonZip")
               /\ heap[last.result].length = LengthNone
         /\ last.op = "PythonEnumerate" =>
               /\ BuiltNode("PythonEnumerate")
               /\ heap[last.result].element = last.arg[1]
    ELSE /\ (last.op = "PythonTuple" /\ Len(last.arg) >= 1 /\ TypedElements) =>
               /\ BuiltNode("PythonTuple")
               /\ heap[last.result].typed
               /\ heap[last.result].is_homogeneous <=> (~SomeGeneric /\ PairwiseAlike)
         /\ (last.op = "PythonList" /\ Len(last.arg) >= 1 /\ TypedElements) =>
               IF ~SomeGeneric /\ PairwiseAlike
               THEN BuiltNode("PythonList") /\ heap[last.result].typed
               ELSE raised = "TypeError" /\ NewObjects = {}
         /\ (last.op = "PythonZip" /\ Len(last.arg) >= 2 /\ SizedSources) =>
               /\ BuiltNode("PythonZip")
               /\ heap[last.result].length # LengthNone
         /\ last.op = "PythonEnumerate" =>
               IF isinstance_TypedAstNode(heap[last.arg[1]])
               THEN /\ BuiltNode("PythonEnumerate")
                    /\ heap[last.result].element = last.arg[1]
               ELSE raised = "TypeError" /\ NewObjects = {}

\* In the syntactic stage a list of an integer and a float is built
C28_Witness ==
    /\ pyccel_stage = "syntactic"
    /\ last.op = "PythonList"
    /\ Len(last.arg) = 2
    /\ heap[last.arg[1]].dtype = DType("NativeInteger")
    /\ heap[last.arg[2]].dtype = DType("NativeFloat")
    /\ raised = ""
    /\ heap[last.result].cls = "PythonList"

(***************************************************************************)
(* BindCModule and CLocFunc                                                 *)
(*                                                                         *)
(* A value of Python's handed to or returned by these nodes is a record     *)
(* (type, id, items): a tuple, a list or None; id tells the lists apart.    *)
(***************************************************************************)
py_tuple(items) == [type |-> "tuple", id |-> 0, items |-> items]

py_list(id, items) == [type |-> "list", id |-> id, items |-> items]

py_None == [type |-> "NoneType", id |-> 0, items |-> <<>>]

\* Module(name, variables, funcs) of pyccel.ast.core
Module(id, name, variables, funcs) ==
    [cls |-> "Module", id |-> id, name |-> name, variables |-> variables,
     funcs |-> funcs, orig_mod |-> py_None, variable_wrappers |-> py_None,
     removed_functions |-> py_None]

\* Module.declarations of pyccel.ast.core: one declaration per variable of
\* the module
Module_declarations(self) ==
    py_list(0, [k \in 1..Len(self.variables.items) |->
                   [cls |-> "Declare", variable |-> self.variables.items[k]]])

\* BindCModule.__init__(*args, original_module, variable_wrappers,
\* removed_functions), args being the name, the variables and the functions
BindCModule(id, args, original_module, variable_wrappers, removed_functions) ==
    [Module(id, args[1], args[2], args[3]) EXCEPT
        !.cls = "BindCModule",
        !.orig_mod = original_module,
        !.variable_wrappers = variable_wrappers,
        !.removed_functions = removed_functions]

\* The default of the parameter variable_wrappers, and of removed_functions
BindCModule_variable_wrappers_default == py_tuple(<<>>)

BindCModule_removed_functions_default == py_None

\* BindCModule.original_module, .variable_wrappers, .removed_functions
original_module(self) == self.orig_mod

variable_wrappers(self) == self.variable_wrappers

removed_functions(self) == self.removed_functions

\* BindCModule.declarations as inherited from Module
BindCModule_declarations_inherited(self) == Module_declarations(self)

\* BindCModule.declarations
BindCModule_declarations(self) == py_tuple(<<>>)

\* The test of CLocFunc.__init__ accepting every result of rank 0
CLocFunc_asserts_scalar(argument, result) == result.rank = 0

\* The assertion of CLocFunc.__init__: a datatype is one object per class, so
\* `is` compares the classes
CLocFunc_asserts(argument, result) == result.dtype = "BindCPointer"

\* CLocFunc(argument, result) once the assertion has passed
CLocFunc(argument, result) ==
    [cls |-> "CLocFunc", arg |-> argument, result |-> result]

\* CLocFunc.arg, CLocFunc.result
CLocFunc_arg(self) == self.arg

CLocFunc_result(self) == self.result

(***************************************************************************)
(* The two nodes as a state machine: one node is built, then its            *)
(* properties are read any number of times.  func holds the node.           *)
(***************************************************************************)
NameY == <<"y">>

\* The module-level variables at hand: none, a scalar, an array, both
ModuleVariables ==
    {<<>>,
     <<Variable(NameX, "NativeFloat", 0)>>,
     <<Variable(NameY, "NativeInteger", 1)>>,
     <<Variable(NameX, "NativeFloat", 0), Variable(NameY, "NativeInteger", 1)>>}

\* The wrapped modules
OriginalModules ==
    {Module(1, <<"m">>, py_list(1, variables), py_list(2, <<>>)) :
        variables \in ModuleVariables}

\* What a caller passes as variable_wrappers: nothing, or a list of the
\* functions exposing the array variable
VariableWrappers ==
    {BindCModule_variable_wrappers_default,
     py_list(3, <<>>),
     py_list(3, <<BindCFunctionDef(<<"g", "e", "t", "_", "y">>, <<>>, <<>>,
                                   [cls |-> "FunctionDef", name |-> <<"y">>])>>)}

\* What a caller passes as removed_functions: nothing, or a list of functions
RemovedFunctions ==
    {BindCModule_removed_functions_default,
     py_list(4, <<>>),
     py_list(4, <<[cls |-> "FunctionDef", name |-> <<"_", "p">>]>>)}

\* The variables handed to CLocFunc
PointerTargets ==
    {Variable(NameX, "NativeFloat", r) : r \in 0..1}
    \cup {Variable(BoundPrefix \o NameX, "BindCPointer", 0)}

PointerResults ==
    {Variable(BoundPrefix \o NameX, dtype, r) :
        dtype \in {"BindCPointer", "NativeInteger", "NativeFloat"}, r \in 0..1}

InitNodes ==
    /\ declared = {}
    /\ scope = {}
    /\ log = <<>>
    /\ arguments = <<>>
    /\ results = <<>>
    /\ func = None
    /\ raised = ""
    /\ ret = NoRet
    /\ heap = <<>>
    /\ last = NoCall
    /\ pyccel_stage = "semantic"

nodeFrame == <<scope, declared, log, arguments, results, heap, last, pyccel_stage>>

\* Nothing was built or attempted yet
Unbuilt == func = None /\ ret = NoRet

\* BindCModule(name, variables, funcs, original_module=..., ...)
NewBindCModule ==
    /\ Unbuilt
    /\ \E m \in OriginalModules, variables \in ModuleVariables,
          w \in VariableWrappers, removed \in RemovedFunctions :
          /\ func' = BindCModule(2, <<<<"b", "i", "n", "d", "_", "c", "_", "m">>,
                                      py_list(5, variables), py_list(6, <<>>)>>,
                                 m, w, removed)
          /\ ret' = [op |-> "BindCModule", self |-> 0, value |-> <<m, w, removed>>]
    /\ raised' = ""
    /\ UNCHANGED nodeFrame

\* Reading a property of the node built
Read(op, value) ==
    /\ ret' = [op |-> op, self |-> 0, value |-> value]
    /\ UNCHANGED <<func, raised>>
    /\ UNCHANGED nodeFrame

ReadDeclarations ==
    /\ func.cls = "BindCModule"
    /\ Read("declarations", BindCModule_declarations(func))

ReadOriginalModule ==
    /\ func.cls = "BindCModule"
    /\ Read("original_module", original_module(func))

ReadVariableWrappers ==
    /\ func.cls = "BindCModule"
    /\ Read("variable_wrappers", variable_wrappers(func))

ReadRemovedFunctions ==
    /\ func.cls = "BindCModule"
    /\ Read("removed_functions", removed_functions(func))

\* CLocFunc(argument, result)
NewCLocFunc ==
    /\ Unbuilt
    /\ \E argument \in PointerTargets, result \in PointerResults :
          /\ ret' = [op |-> "CLocFunc", self |-> 0, value |-> <<argument, result>>]
          /\ IF CLocFunc_asserts(argument, result)
             THEN func' = CLocFunc(argument, result) /\ raised' = ""
             ELSE func' = None /\ raised' = "AssertionError"
    /\ UNCHANGED nodeFrame

ReadArg ==
    /\ func.cls = "CLocFunc"
    /\ Read("arg", CLocFunc_arg(func))

ReadResult ==
    /\ func.cls = "CLocFunc"
    /\ Read("result", CLocFunc_result(func))

NextNodes ==
    \/ NewBindCModule
    \/ ReadDeclarations
    \/ ReadOriginalModule
    \/ ReadVariableWrappers
    \/ ReadRemovedFunctions
    \/ NewCLocFunc
    \/ ReadArg
    \/ ReadResult

SpecNodes == InitNodes /\ [][NextNodes]_vars

(***************************************************************************)
(* Properties of BindCModule and CLocFunc                                   *)
(***************************************************************************)
\* C24: declarations of a BindCModule is the empty sequence, whatever
\* variables the wrapped module or the constructor arguments hold, and
\* original_module, variable_wrappers and removed_functions return what was
\* passed at construction (the defaults when nothing was passed).
C24_ModuleViews ==
    /\ func.cls = "BindCModule" =>
          /\ BindCModule_declarations(func).items = <<>>
          /\ original_module(func) \in OriginalModules
          /\ func.id # original_module(func).id
    /\ ret.op = "BindCModule" =>
          /\ original_module(func) = ret.value[1]
          /\ variable_wrappers(func) = ret.value[2]
          /\ removed_functions(func) = ret.value[3]
    /\ ret.op = "declarations" => ret.value = py_tuple(<<>>)
    /\ ret.op = "original_module" => ret.value = func.orig_mod
    /\ ret.op = "variable_wrappers" => ret.value = func.variable_wrappers
    /\ ret.op = "removed_functions" => ret.value = func.removed_functions

\* The declarations of a module wrapping, and built over, two variables
C24_Witness ==
    /\ ret.op = "declarations"
    /\ func.cls = "BindCModule"
    /\ Len(func.variables.items) = 2
    /\ Len(func.orig_mod.variables.items) = 2
    /\ ret.value.items = <<>>

\* C25: CLocFunc(argument, result) is built exactly when the datatype of
\* result is BindCPointer, and fails with an assertion error for every other
\* datatype; once built, arg and result return the two operands.
C25_AddressOf ==
    /\ ret.op = "CLocFunc" =>
          IF ret.value[2].dtype = "BindCPointer"
          THEN /\ raised = ""
               /\ func.cls = "CLocFunc"
               /\ CLocFunc_arg(func) = ret.value[1]
               /\ CLocFunc_result(func) = ret.value[2]
          ELSE /\ raised = "AssertionError"
               /\ func = None
    /\ func.cls = "CLocFunc" => func.result.dtype = "BindCPointer"
    /\ ret.op = "arg" => ret.value = func.arg
    /\ ret.op = "result" => ret.value = func.result

\* An integer result of rank 0 is refused
C25_Witness ==
    /\ ret.op = "CLocFunc"
    /\ ret.value[2].dtype = "NativeInteger"
    /\ ret.value[2].rank = 0
    /\ raised = "AssertionError"
    /\ func = None

(***************************************************************************)
(* change_to_lib_flag of pyccel.compilers.default_compilers                 *)
(*                                                                         *)
(* A string is the sequence of its characters.                              *)
(***************************************************************************)
\* str.startswith and str.endswith
startswith(s, prefix) ==
    /\ Len(prefix) <= Len(s)
    /\ SubSeq(s, 1, Len(prefix)) = prefix

endswith(s, suffix) ==
    /\ Len(suffix) <= Len(s)
    /\ SubSeq(s, Len(s) - Len(suffix) + 1, Len(s)) = suffix

\* s[start:end] for a start that is not negative: a negative end counts from
\* the end of the string, and both are clipped to the string
slice(s, start, end) ==
    LET stop == IF end < 0
                THEN (IF end + Len(s) < 0 THEN 0 ELSE end + Len(s))
                ELSE (IF end > Len(s) THEN Len(s) ELSE end)
    IN  SubSeq(s, start + 1, stop)

\* The three tests of a suffix and what each takes off `end`
lib_a == <<".", "a">>

lib_so == <<".", "s", "o">>

lib_dylib == <<".", "d", "y", "l", "i", "b">>

lib_prefix == <<"l", "i", "b">>

change_to_lib_flag(lib) ==
    IF startswith(lib, lib_prefix)
    THEN LET end0 == Len(lib)
             end1 == IF endswith(lib, lib_a) THEN end0 - 2 ELSE end0
             end2 == IF endswith(lib, lib_so) THEN end1 - 3 ELSE end1
             end3 == IF endswith(lib, lib_dylib) THEN end2 - 5 ELSE end2
         IN  <<"-", "l">> \o slice(lib, 3, end3)
    ELSE lib

(***************************************************************************)
(* The function applied to one file name, held in last.arg; ret holds the   *)
(* flag returned.                                                           *)
(***************************************************************************)
\* The file names: a beginning, a stem and an ending
LibBeginnings == {<<>>, lib_prefix, <<"l", "i">>, <<"L", "i", "b">>, <<"-", "l">>}

LibStems == {<<>>, <<"m">>, <<"f", "o", "o">>, <<"a", ".", "s", "o">>, <<"l", "i", "b">>}

LibEndings == {<<>>, lib_a, lib_so, lib_dylib, <<".", "o">>, <<".", "s", "o", ".", "1">>,
               <<"a">>, <<"d", "y", "l", "i", "b">>}

LibNames == {b \o s \o e : b \in LibBeginnings, s \in LibStems, e \in LibEndings}

InitLibFlag ==
    /\ declared = {}
    /\ scope = {}
    /\ log = <<>>
    /\ arguments = <<>>
    /\ results = <<>>
    /\ func = None
    /\ raised = ""
    /\ ret = NoRet
    /\ heap = <<>>
    /\ \E lib \in LibNames : last = [NoCall EXCEPT !.arg = lib]
    /\ pyccel_stage = "codegen"

CallChangeToLibFlag ==
    /\ last.op = ""
    /\ last' = [last EXCEPT !.op = "change_to_lib_flag"]
    /\ ret' = [op |-> "change_to_lib_flag", self |-> 0,
               value |-> change_to_lib_flag(last.arg)]
    /\ UNCHANGED <<scope, declared, log, arguments, results, func, raised,
                   heap, pyccel_stage>>

NextLibFlag == CallChangeToLibFlag

SpecLibFlag == InitLibFlag /\ [][NextLibFlag]_vars

(***************************************************************************)
(* Properties of change_to_lib_flag                                         *)
(***************************************************************************)
\* The name without its first three characters and without the given ending
Stripped(lib, suffix) == SubSeq(lib, 4, Len(lib) - Len(suffix))

\* C29: for a file name beginning with lib and ending with .a, .so or
\* .dylib, the flag is -l followed by the name without the prefix lib and
\* without the whole ending, its dot included; a name not beginning with lib
\* is returned unchanged.
C29_AsClaimed ==
    ret.op = "change_to_lib_flag" =>
       /\ \A suffix \in {lib_a, lib_so, lib_dylib} :
             startswith(last.arg, lib_prefix) /\ endswith(last.arg, suffix) =>
                ret.value = <<"-", "l">> \o Stripped(last.arg, suffix)
       /\ ~startswith(last.arg, lib_prefix) => ret.value = last.arg

=============================================================================
